---- MODULE Spec2Model ----
(***************************************************************************)
(* Curation pipeline of super_rss_curator_json.py: deduplication, the      *)
(* relevance scorer with its score cache, the per-source diversity limit,  *)
(* the feed merge with retention, the podcast theme selector, the expiry   *)
(* of the caches at load, a run of main with the files it writes, the      *)
(* local-priority and source-preference adjustments, the weekly podcast    *)
(* pool and the theme score cache.                                         *)
(*                                                                         *)
(* Each component has its own specification (SpecDedup, SpecScore,         *)
(* SpecDiversity, SpecMerge, SpecTheme, SpecCaches, SpecRun, SpecRunFair,  *)
(* SpecAdjust, SpecPool, SpecThemeCall) over the module's variables; the   *)
(* variables a specification does not use keep their idle value.           *)
(***************************************************************************)
EXTENDS Integers, Sequences, FiniteSets, TLC

VARIABLES
    batch,            \* deduplicate_articles: the list passed in (all_articles)
    fuzz,             \* what fuzz.ratio / fuzz.token_sort_ratio return per title pair
    unique,           \* deduplicate_articles: the list returned
    rerun,            \* deduplicate_articles applied to its own output
    dedup_pc,         \* "fetched" -> "deduped" -> "rerun"
    now,              \* datetime.now(timezone.utc), in hours
    scored_cache_file,\* SCORED_CACHE_FILE: url_hash -> {score, category, timestamp}
    score_pc,         \* score_articles_with_claude: "idle", "batching", "returned"
    runs,             \* how many times the scorer was called
    run_start,        \* now when the current call loaded the cache
    file_at_load,     \* what SCORED_CACHE_FILE held when the current call loaded it
    articles,         \* the Article objects passed to the current call
    cache,            \* score_articles_with_claude.cache
    uncached,         \* score_articles_with_claude.uncached (positions in articles)
    next_batch,       \* the loop index i of "for i in range(0, len(uncached), batch_size)"
    scored_articles,  \* score_articles_with_claude.scored_articles (positions in articles)
    oracle_calls,     \* the batches sent to client.messages.create, with how each ended
    first_run,        \* the first call's outcome, kept once the second call starts
    div_articles,     \* apply_diversity_limits: the list passed in
    div_category,     \* apply_diversity_limits: the category passed in
    diverse_articles, \* apply_diversity_limits: the list returned
    div_pc,           \* "scored" -> "limited"
    config,           \* SYSTEM['lookback_hours'] and LIMITS['feed_retention_days']
    quality_articles, \* main: the articles that passed the quality filter
    shown_cache,      \* main: the Shown Cache as loaded in this run
    shown_cache_file, \* shown_articles_cache.json: url_hash -> timestamp
    feed_files,       \* feed-<category>.json: the items of each feed
    fetched_at,       \* when the run in progress computed cutoff_date
    merged_at,        \* when the last merge computed retention_cutoff
    merge_runs,       \* runs of main started
    merge_pc,         \* "idle" -> "collected" -> "merged" -> "collected" ...
    all_items,        \* main: per category, all_items of the last merge before the sort
    podcast_cache,    \* podcast_articles_cache.json: the Weekly Pool
    podcast_shown_file, \* podcast_shown_cache.json: link -> shown_at
    theme_cache_file, \* theme_scores_cache.json: link (of today's theme) -> score, cached_at
    theme_out,        \* what the last run of the Theme Selector did
    selected_at,      \* link -> when a Theme Selector run last selected it
    theme_runs,       \* runs of the Theme Selector so far
    probe,            \* what each cache load of a run kept and what its filter let through
    api_key,          \* os.getenv('ANTHROPIC_API_KEY'); "" when it is not set
    run_pc,           \* the statement of main the run is at
    exit_status,      \* {} while the process runs, {n} once it has exited with status n
    files_written,    \* the files this run has written
    feeds_left,       \* main: the feeds "for feed in feeds" has not fetched yet
    run_articles,     \* main: all_articles, later scored_articles and quality_articles
    cats_left,        \* main: the categories "for cat_key in CATEGORIES" has not written yet
    scored_in,        \* main: scored_articles as score_articles_with_claude returned it
    enforced_out,     \* main: scored_articles after enforce_local_priority
    adjusted_out,     \* main: scored_articles after apply_source_preferences
    adjust_pc,        \* "scored" -> "enforced" -> "adjusted"
    pool_log,         \* the last save_podcast_cache and load_podcast_cache: when, and what they saw
    theme_call,       \* the last call of score_articles_for_theme: when, the file it loaded, its hits
    podcast_feed_file, \* feed-podcast-<day>.json of the theme's day: whether it exists, its links, when written
    feed_before_run   \* podcast_feed_file as the last run of the Theme Selector found it

dedupVars == <<batch, fuzz, unique, rerun, dedup_pc>>

scoreVars == <<scored_cache_file, score_pc, runs, run_start, file_at_load, articles,
               cache, uncached, next_batch, scored_articles, oracle_calls, first_run>>

divVars == <<div_articles, div_category, diverse_articles, div_pc>>

mergeVars == <<config, quality_articles, shown_cache, shown_cache_file, feed_files,
               fetched_at, merged_at, merge_runs, merge_pc, all_items>>

themeVars == <<podcast_cache, podcast_shown_file, theme_cache_file, theme_out,
               selected_at, theme_runs>>

probeVars == <<probe>>

runVars == <<api_key, run_pc, exit_status, files_written, feeds_left, run_articles,
             cats_left>>

adjustVars == <<scored_in, enforced_out, adjusted_out, adjust_pc>>

poolVars == <<pool_log>>

themeCallVars == <<theme_call>>

feedVars == <<podcast_feed_file, feed_before_run>>

vars == <<dedupVars, now, scoreVars, divVars, mergeVars, themeVars, probeVars, runVars, adjustVars, poolVars, themeCallVars, feedVars>>

----------------------------------------------------------------------------
(* Generic helpers                                                         *)

Max(a, b) == IF a >= b THEN a ELSE b

Min(a, b) == IF a <= b THEN a ELSE b

Range(s) == {s[i] : i \in 1..Len(s)}

\* Python's sorted(): stable, ascending by key. keys[i] is the key of s[i].
\* Element i goes to the position that counts the elements sorted before it.
SortedPos(keys, i) ==
    1 + Cardinality({j \in 1..Len(keys) :
                        \/ keys[j] < keys[i]
                        \/ (keys[j] = keys[i] /\ j < i)})

StableSortAsc(s, keys) ==
    [p \in 1..Len(s) |-> s[CHOOSE i \in 1..Len(s) : SortedPos(keys, i) = p]]

\* list.remove(x) / dict.pop(k): drop the element at position i
RemoveAt(s, i) == [k \in 1..(Len(s) - 1) |-> IF k < i THEN s[k] ELSE s[k + 1]]

----------------------------------------------------------------------------
(* The value of the variables a specification does not use                 *)

NoEntries == [f \in {} |-> 0]

DedupIdle ==
    /\ batch = <<>>
    /\ fuzz = NoEntries
    /\ unique = <<>>
    /\ rerun = <<>>
    /\ dedup_pc = "idle"

ScoreIdle ==
    /\ scored_cache_file = NoEntries
    /\ score_pc = "idle"
    /\ runs = 0
    /\ run_start = 0
    /\ file_at_load = NoEntries
    /\ articles = <<>>
    /\ cache = NoEntries
    /\ uncached = <<>>
    /\ next_batch = 0
    /\ scored_articles = <<>>
    /\ oracle_calls = <<>>
    /\ first_run = "none"

DiversityIdle ==
    /\ div_articles = <<>>
    /\ div_category = "none"
    /\ diverse_articles = <<>>
    /\ div_pc = "idle"

MergeIdle ==
    /\ config = [lookback_hours |-> 0, feed_retention_days |-> 0]
    /\ quality_articles = <<>>
    /\ shown_cache = NoEntries
    /\ shown_cache_file = NoEntries
    /\ feed_files = NoEntries
    /\ fetched_at = 0
    /\ merged_at = 0
    /\ merge_runs = 0
    /\ merge_pc = "idle"
    /\ all_items = NoEntries

NoThemeRun ==
    [at |-> 0, pool |-> <<>>, hits |-> {}, outcomes |-> <<>>, entries |-> <<>>,
     shown |-> {}, before |-> NoEntries]

ThemeIdle ==
    /\ podcast_cache = <<>>
    /\ podcast_shown_file = NoEntries
    /\ theme_cache_file = NoEntries
    /\ theme_out = NoThemeRun
    /\ selected_at = NoEntries
    /\ theme_runs = 0

NoProbe ==
    [done |-> {}, hits |-> {}, new_articles |-> <<>>, theme_pool |-> <<>>,
     other_filtered |-> <<>>]

ProbeIdle == probe = NoProbe

RunIdle ==
    /\ api_key = ""
    /\ run_pc = "idle"
    /\ exit_status = {}
    /\ files_written = {}
    /\ feeds_left = <<>>
    /\ run_articles = <<>>
    /\ cats_left = <<>>

AdjustIdle ==
    /\ scored_in = <<>>
    /\ enforced_out = <<>>
    /\ adjusted_out = <<>>
    /\ adjust_pc = "idle"

NoPoolLog ==
    [saves |-> 0, saved_at |-> 0, before |-> <<>>, saved |-> <<>>,
     loads |-> 0, loaded_at |-> 0, loaded |-> <<>>]

PoolIdle == pool_log = NoPoolLog

NoThemeCall == [calls |-> 0, at |-> 0, loaded |-> NoEntries, hits |-> {}]

ThemeCallIdle == theme_call = NoThemeCall

NoPodcastFeed == [exists |-> FALSE, urls |-> <<>>, at |-> 0]

PodcastFeedIdle ==
    /\ podcast_feed_file = NoPodcastFeed
    /\ feed_before_run = NoPodcastFeed

----------------------------------------------------------------------------
(* Configuration (config/source_preferences.json, config/limits.json)      *)

\* SOURCE_PREFS['source_map']: source name -> source type; "Blog" and the
\* scraped "Williams Lake Tribune" are not in the map, and "Wire" has a type
\* that source_types does not configure.
SourceMap ==
    [s \in {"Tribune", "Gazette", "Radio", "Wire"} |->
        CASE s = "Tribune" -> "preferred_local"
          [] s = "Gazette" -> "print"
          [] s = "Radio"   -> "broadcast"
          [] s = "Wire"    -> "agency"]

\* SOURCE_PREFS['source_types']: per type a score_adjustment and, for some
\* types, a max_per_source (config_loader.validate_config: at least 1)
SourceTypes ==
    [t \in {"preferred_local", "print", "broadcast"} |->
        CASE t = "preferred_local" ->
                [score_adjustment |-> 10, has_max |-> TRUE, max_per_source |-> 3]
          [] t = "print" ->
                [score_adjustment |-> 5, has_max |-> TRUE, max_per_source |-> 2]
          [] t = "broadcast" ->
                [score_adjustment |-> -10, has_max |-> FALSE, max_per_source |-> 0]]

\* LIMITS['max_per_source']
MaxPerSource == 1

\* LIMITS['max_per_local']
MaxPerLocal == 2

\* source_map.get(article.source)
SourceType(source) ==
    IF source \in DOMAIN SourceMap THEN SourceMap[source] ELSE "none"

\* LIMITS['local_priority_score']
LocalPriorityScore == 100

----------------------------------------------------------------------------
(* Deduplicator                                                            *)

\* fuzz.ratio and fuzz.token_sort_ratio are library calls: equal strings
\* score 100, and for two different titles the pair of results is an input
\* of the model, the same in both argument orders.
TitlePair(t1, t2) == IF t1 < t2 THEN <<t1, t2>> ELSE <<t2, t1>>

FuzzRatio(t1, t2) == IF t1 = t2 THEN 100 ELSE fuzz[TitlePair(t1, t2)].ratio

FuzzTokenSortRatio(t1, t2) ==
    IF t1 = t2 THEN 100 ELSE fuzz[TitlePair(t1, t2)].token_sort

\* similarity = max(fuzz.ratio(..), fuzz.token_sort_ratio(..))
Similarity(t1, t2) == Max(FuzzRatio(t1, t2), FuzzTokenSortRatio(t1, t2))

SimilarityThreshold == 85

\* the comparison without the token-sort measure
IsSimilarRatioOnly(t1, t2) == FuzzRatio(t1, t2) > SimilarityThreshold

\* if similarity > 85
IsSimilar(t1, t2) == Similarity(t1, t2) > SimilarityThreshold

\* _source_priority(article)
SourcePriority(article) ==
    IF SourceType(article.source) = "preferred_local" THEN 0
    ELSE IF article.category = "local" \/ article.score = LocalPriorityScore THEN 1
    ELSE IF SourceType(article.source) = "print" THEN 2
    ELSE IF SourceType(article.source) = "broadcast" THEN 4
    ELSE 3

\* the walk over the batch in the order it was fetched
SortByPriorityUnsorted(list) == list

\* the walk over the batch in descending rank
SortByPriorityDescending(list) ==
    StableSortAsc(list, [i \in 1..Len(list) |-> 0 - SourcePriority(list[i])])

\* sorted(articles, key=_source_priority)
SortByPriority(list) ==
    StableSortAsc(list, [i \in 1..Len(list) |-> SourcePriority(list[i])])

\* The state of the walk: seen_urls, seen_titles (a dict, in insertion
\* order), unique, and how often the swap branch was taken.
DedupStart ==
    [seen_urls |-> {}, seen_titles |-> <<>>, unique |-> <<>>, swaps |-> 0]

\* for seen_title, seen_article in seen_titles.items(): the first entry
\* whose similarity exceeds the threshold (the loop breaks there), 0 if none
FirstSimilar(seen_titles, article) ==
    LET hits == {k \in 1..Len(seen_titles) :
                    IsSimilar(article.title_normalized, seen_titles[k].title)}
    IN IF hits = {} THEN 0 ELSE CHOOSE k \in hits : \A h \in hits : k <= h

\* seen_titles[title] = article: a new key is appended, an existing key
\* keeps its place
DictPut(seen_titles, title, article) ==
    IF \E k \in 1..Len(seen_titles) : seen_titles[k].title = title
    THEN [k \in 1..Len(seen_titles) |->
            IF seen_titles[k].title = title
            THEN [title |-> title, article |-> article]
            ELSE seen_titles[k]]
    ELSE Append(seen_titles, [title |-> title, article |-> article])

\* if not is_duplicate: seen_urls.add, seen_titles[..] = article, unique.append
DedupKeep(st, article) ==
    [st EXCEPT !.seen_urls = @ \cup {article.url_hash},
               !.seen_titles = DictPut(@, article.title_normalized, article),
               !.unique = Append(@, article)]

\* unique.remove(seen_article): the first element that is that object
ListRemove(list, article) ==
    LET at == {k \in 1..Len(list) : list[k].id = article.id}
    IN IF at = {} THEN list
       ELSE RemoveAt(list, CHOOSE k \in at : \A h \in at : k <= h)

\* the iteration with the priority comparison of the swap reversed
DedupStepSwapWorse(st, article) ==
    IF article.url_hash \in st.seen_urls THEN st
    ELSE LET m == FirstSimilar(st.seen_titles, article)
         IN IF m = 0 THEN DedupKeep(st, article)
            ELSE IF SourcePriority(article) > SourcePriority(st.seen_titles[m].article)
                 THEN DedupKeep(
                        [st EXCEPT !.unique = ListRemove(@, st.seen_titles[m].article),
                                   !.seen_titles = RemoveAt(@, m),
                                   !.swaps = @ + 1],
                        article)
                 ELSE st

\* One iteration of "for article in sorted_articles"
DedupStep(st, article) ==
    IF article.url_hash \in st.seen_urls THEN st
    ELSE LET m == FirstSimilar(st.seen_titles, article)
         IN IF m = 0 THEN DedupKeep(st, article)
            ELSE IF SourcePriority(article) < SourcePriority(st.seen_titles[m].article)
                 THEN DedupKeep(
                        [st EXCEPT !.unique = ListRemove(@, st.seen_titles[m].article),
                                   !.seen_titles = RemoveAt(@, m),
                                   !.swaps = @ + 1],
                        article)
                 ELSE st

RECURSIVE DedupWalk(_, _)
DedupWalk(st, list) ==
    IF list = <<>> THEN st
    ELSE DedupWalk(DedupStep(st, Head(list)), Tail(list))

\* deduplicate_articles(articles)
DeduplicateArticles(list) ==
    DedupWalk(DedupStart, SortByPriority(list)).unique

----------------------------------------------------------------------------
(* Inputs of the Deduplicator                                              *)

MaxBatch == 3

Links == 1..MaxBatch

Titles == {1, 2, 3}

\* what the two library measures can return for a pair of different titles:
\* on or below the threshold, a near-identical title, a word-shuffled reprint
FuzzLevels ==
    { [ratio |-> 80, token_sort |-> 85],
      [ratio |-> 86, token_sort |-> 60],
      [ratio |-> 60, token_sort |-> 86] }

\* the feeds the batches are fetched from: a print and a broadcast source
FetchedFrom == {"Gazette", "Radio"}

\* Article.__init__: score 0 and category None ("none"); keywords are the
\* configured keywords that occur in the title or description
NewArticle(id, link, title, source) ==
    [id |-> id, url_hash |-> link, title_normalized |-> title, source |-> source,
     keywords |-> {}, score |-> 0, category |-> "none", pub_date |-> 0]

\* main gives a scraped Williams Lake Tribune entry the score
\* local_priority_score and the category local
ScrapedArticle(id, link, title) ==
    [NewArticle(id, link, title, "Williams Lake Tribune")
        EXCEPT !.score = LocalPriorityScore, !.category = "local"]

\* Links and titles are named in the order they first appear in the batch:
\* each is one the batch already has or the next unused one.
InOrderOfUse(names) ==
    \A i \in DOMAIN names :
        names[i] <= 1 + Cardinality({names[j] : j \in 1..(i - 1)})

BatchesOf(n) ==
    { b \in [1..n -> [link : Links, title : Titles,
                      from : FetchedFrom \cup {"scraped"}]] :
        /\ InOrderOfUse([i \in 1..n |-> b[i].link])
        /\ InOrderOfUse([i \in 1..n |-> b[i].title]) }

MakeBatch(b) ==
    [i \in DOMAIN b |->
        IF b[i].from = "scraped"
        THEN ScrapedArticle(i, b[i].link, b[i].title)
        ELSE NewArticle(i, b[i].link, b[i].title, b[i].from)]

TitlePairs == {p \in Titles \X Titles : p[1] < p[2]}

InitDedup ==
    /\ PodcastFeedIdle
    /\ ThemeCallIdle
    /\ PoolIdle
    /\ AdjustIdle
    /\ ProbeIdle
    /\ RunIdle
    /\ \E n \in 0..MaxBatch : \E b \in BatchesOf(n) : batch = MakeBatch(b)
    /\ fuzz \in [TitlePairs -> FuzzLevels]
    /\ unique = <<>>
    /\ rerun = <<>>
    /\ dedup_pc = "fetched"
    /\ now = 0
    /\ ScoreIdle
    /\ DiversityIdle
    /\ MergeIdle
    /\ ThemeIdle

\* unique_articles = deduplicate_articles(all_articles)
Deduplicate ==
    /\ dedup_pc = "fetched"
    /\ unique' = DeduplicateArticles(batch)
    /\ dedup_pc' = "deduped"
    /\ UNCHANGED <<feedVars, themeCallVars, poolVars, adjustVars, probeVars,
                   runVars, batch, fuzz, rerun, now, scoreVars, divVars,
                   mergeVars, themeVars>>

\* deduplicate_articles called on the list it returned
DeduplicateAgain ==
    /\ dedup_pc = "deduped"
    /\ rerun' = DeduplicateArticles(unique)
    /\ dedup_pc' = "rerun"
    /\ UNCHANGED <<feedVars, themeCallVars, poolVars, adjustVars, probeVars,
                   runVars, batch, fuzz, unique, now, scoreVars, divVars,
                   mergeVars, themeVars>>

NextDedup == Deduplicate \/ DeduplicateAgain

SpecDedup == InitDedup /\ [][NextDedup]_vars

----------------------------------------------------------------------------
(* Claims about the Deduplicator                                           *)

Deduped == dedup_pc \in {"deduped", "rerun"}

InUnique(a) == \E k \in 1..Len(unique) : unique[k].id = a.id

TitleSimilarity(a, b) == Similarity(a.title_normalized, b.title_normalized)

\* C1: the list deduplicate_articles returns holds no two articles with the
\* same url_hash and no two articles whose normalized titles have a
\* similarity above 85.
C1_UniqueOutput ==
    Deduped =>
        \A i, j \in 1..Len(unique) :
            i < j => /\ unique[i].url_hash # unique[j].url_hash
                     /\ ~(TitleSimilarity(unique[i], unique[j]) > 85)

\* of three articles one was dropped for its link and one for its title
C1_Witness ==
    /\ dedup_pc = "deduped"
    /\ Len(batch) = 3
    /\ Len(unique) = 1
    /\ \E a \in Range(batch) : ~InUnique(a) /\ a.url_hash = unique[1].url_hash
    /\ \E a \in Range(batch) :
          /\ ~InUnique(a)
          /\ a.url_hash # unique[1].url_hash
          /\ a.title_normalized # unique[1].title_normalized

\* C2 as stated: of two batch articles with similarity >= 85 and different
\* priority ranks, the output holds the better-ranked one and not the other.
C2_AsStated ==
    dedup_pc = "deduped" =>
        \A a, b \in Range(batch) :
            (TitleSimilarity(a, b) >= 85 /\ SourcePriority(a) < SourcePriority(b))
                => (InUnique(a) /\ ~InUnique(b))

\* C2 amended: of two batch articles with similarity above 85 and different
\* priority ranks, the output never holds both, and it holds the
\* better-ranked one unless that one was itself dropped as a duplicate (same
\* url_hash or similarity above 85) of an output article of equal or better
\* rank.
C2_PriorityTieBreak ==
    dedup_pc = "deduped" =>
        \A a, b \in Range(batch) :
            (TitleSimilarity(a, b) > 85 /\ SourcePriority(a) < SourcePriority(b))
                => /\ ~(InUnique(a) /\ InUnique(b))
                   /\ \/ InUnique(a)
                      \/ \E k \in Range(unique) :
                            /\ SourcePriority(k) <= SourcePriority(a)
                            /\ \/ k.url_hash = a.url_hash
                               \/ TitleSimilarity(a, k) > 85

\* two similar articles of different rank and different links, of which the
\* better-ranked is kept and the other dropped
C2_Witness ==
    /\ dedup_pc = "deduped"
    /\ \E a, b \in Range(batch) :
          /\ TitleSimilarity(a, b) > 85
          /\ a.title_normalized # b.title_normalized
          /\ a.url_hash # b.url_hash
          /\ SourcePriority(a) < SourcePriority(b)
          /\ InUnique(a) /\ ~InUnique(b)

\* C3: deduplicate_articles applied to its own output returns the same
\* articles in the same order.
C3_Idempotent == dedup_pc = "rerun" => rerun = unique

\* the second pass ran on an output of two articles that the first pass had
\* reordered and cut down
C3_Witness ==
    /\ dedup_pc = "rerun"
    /\ Len(unique) = 2
    /\ Len(batch) = 3
    /\ unique[1].id > unique[2].id

----------------------------------------------------------------------------
(* Score Cache                                                             *)

\* SYSTEM['cache_expiry']['scored_hours']
ScoredHours == 2

\* the load with a cutoff one hour late
LoadScoredCacheEarlyExpiry(file, t) ==
    LET cutoff == t - ScoredHours + 1
        valid == {k \in DOMAIN file : file[k].timestamp > cutoff}
    IN [k \in valid |-> file[k]]

\* load_scored_cache() at time t: the entries with timestamp > cutoff
LoadScoredCache(file, t) ==
    LET cutoff == t - ScoredHours
        valid == {k \in DOMAIN file : file[k].timestamp > cutoff}
    IN [k \in valid |-> file[k]]

\* d[k] = v on a dict
DictSet(d, k, v) == [x \in (DOMAIN d) \cup {k} |-> IF x = k THEN v ELSE d[x]]

----------------------------------------------------------------------------
(* Relevance Scorer                                                        *)

\* CATEGORIES.keys()
Categories == {"local", "news", "science"}

\* CATEGORY_RULES, in file order
CategoryRules ==
    << [category |-> "science", include |-> {"research"}, exclude |-> {"horoscope"}] >>

\* categorize_article(title, description): the first rule with an include
\* keyword and no exclude keyword in the text, None ("none") without one
CategorizeArticle(article) ==
    LET hits == {k \in 1..Len(CategoryRules) :
                    /\ CategoryRules[k].category \in Categories
                    /\ CategoryRules[k].include \cap article.keywords # {}
                    /\ CategoryRules[k].exclude \cap article.keywords = {}}
    IN IF hits = {} THEN "none"
       ELSE CategoryRules[CHOOSE k \in hits : \A h \in hits : k <= h].category

\* batch_size (10 in the source), scaled down with the number of articles
BatchSize == 2

\* the neutral score of the except handlers
DefaultScore == 50

\* uncached[i:i + batch_size]
BatchAt(list, i) ==
    [k \in 1..Min(BatchSize, Len(list) - i) |-> list[i + k]]

\* The walk over one response carries the Article objects, the cache, the
\* scored_articles list and whether an entry raised an error.

\* the handler that leaves the batch as it is
DefaultBatchKeepsScores(st, bt) ==
    [st EXCEPT !.scored = @ \o bt, !.raised = FALSE]

\* except json.JSONDecodeError / except Exception: every article of the batch
\* gets score 50 and category 'news' and is appended to scored_articles
DefaultBatch(st, bt) ==
    [st EXCEPT
        !.articles = [p \in DOMAIN @ |->
                        IF p \in Range(bt)
                        THEN [@[p] EXCEPT !.score = DefaultScore, !.category = "news"]
                        ELSE @[p]],
        !.scored = @ \o bt,
        !.raised = FALSE]

\* the category an entry leaves on the article: the oracle's if it is a
\* configured one, else categorize_article(...) or 'news'
EntryCategory(article, category) ==
    IF category \in Categories THEN category
    ELSE IF CategorizeArticle(article) # "none" THEN CategorizeArticle(article)
    ELSE "news"

\* one iteration of "for score_data in scores" at time t; an entry without
\* its keys raises before it changes anything
ApplyScore(st, bt, entry, t) ==
    IF entry.kind = "malformed" THEN [st EXCEPT !.raised = TRUE]
    ELSE LET idx == entry.article - 1
         IN IF 0 <= idx /\ idx < Len(bt)
            THEN LET pos == bt[idx + 1]
                     scored == [st.articles[pos] EXCEPT
                                   !.score = entry.score,
                                   !.category = EntryCategory(st.articles[pos],
                                                              entry.category)]
                 IN [st EXCEPT
                        !.articles[pos] = scored,
                        !.cache = DictSet(@, scored.url_hash,
                                          [score |-> scored.score,
                                           category |-> scored.category,
                                           timestamp |-> t]),
                        !.scored = Append(@, pos)]
            ELSE st

RECURSIVE ApplyScores(_, _, _, _)
ApplyScores(st, bt, scores, t) ==
    IF scores = <<>> \/ st.raised THEN st
    ELSE ApplyScores(ApplyScore(st, bt, Head(scores), t), bt, Tail(scores), t)

\* the try block and its two handlers for one batch
ScoreOneBatch(st, bt, response, t) ==
    IF response.kind \in {"api_error", "bad_json"} THEN DefaultBatch(st, bt)
    ELSE LET walked == ApplyScores(st, bt, response.scores, t)
         IN IF walked.raised THEN DefaultBatch(walked, bt) ELSE walked

\* how the call ended: no response or an unparsable one ("failed"), an
\* error raised on an entry of a parsed response, or a response walked to
\* its end
Outcome(st, bt, response, t) ==
    IF response.kind \in {"api_error", "bad_json"} THEN "failed"
    ELSE IF ApplyScores(st, bt, response.scores, t).raised THEN "entry_error"
    ELSE "parsed"

\* the cache lookup that never hits
CacheHitNever(article, loaded) == FALSE

\* if article.url_hash in cache
CacheHit(article, loaded) == article.url_hash \in DOMAIN loaded

\* the partition loop: a cached article takes the cached score and category
FromCache(article, loaded) ==
    IF CacheHit(article, loaded)
    THEN [article EXCEPT !.score = loaded[article.url_hash].score,
                         !.category = loaded[article.url_hash].category]
    ELSE article

\* the positions of the list, in order, that satisfy Keep
RECURSIVE Positions(_, _)
Positions(n, keep) ==
    IF n = 0 THEN <<>>
    ELSE IF n \in keep THEN Append(Positions(n - 1, keep), n)
    ELSE Positions(n - 1, keep)

----------------------------------------------------------------------------
(* Inputs of the Relevance Scorer                                          *)

MaxArticles == 3

MaxRuns == 2

MaxTime == 2

MaxEntries == 2

\* what the oracle can say of an article: a low score with a configured
\* category, a high score with a category that is not configured
OracleVerdicts ==
    { [score |-> 30, category |-> "science"],
      [score |-> 90, category |-> "bogus"] }

\* one element of the JSON array: {"article": n, "score": s, "category": c},
\* or an element that lacks a key
Entries ==
    {[kind |-> "entry", article |-> n, score |-> v.score, category |-> v.category] :
        n \in 1..(BatchSize + 1), v \in OracleVerdicts}
    \cup {[kind |-> "malformed"]}

\* what client.messages.create and json.loads can give for a batch
Responses ==
    {[kind |-> "api_error"], [kind |-> "bad_json"]}
    \cup {[kind |-> "json", scores |-> sc] :
            sc \in UNION {[1..n -> Entries] : n \in 0..MaxEntries}}

\* n articles with different links; the first one matches a category rule
ScorerInput(n) ==
    [i \in 1..n |->
        [NewArticle(i, i, i, "Blog") EXCEPT
            !.keywords = IF i = 1 THEN {"research"} ELSE {}]]

InitScore ==
    /\ PodcastFeedIdle
    /\ ThemeCallIdle
    /\ PoolIdle
    /\ AdjustIdle
    /\ ProbeIdle
    /\ RunIdle
    /\ DedupIdle
    /\ DiversityIdle
    /\ MergeIdle
    /\ ThemeIdle
    /\ now = 0
    /\ scored_cache_file = NoEntries
    /\ score_pc = "idle"
    /\ runs = 0
    /\ run_start = 0
    /\ file_at_load = NoEntries
    /\ \E n \in 0..MaxArticles : articles = ScorerInput(n)
    /\ cache = NoEntries
    /\ uncached = <<>>
    /\ next_batch = 0
    /\ scored_articles = <<>>
    /\ oracle_calls = <<>>
    /\ first_run = "none"

\* what is kept of the first call when the second starts
Snapshot ==
    [start |-> run_start, articles |-> articles, returned |-> scored_articles,
     calls |-> oracle_calls, saved |-> scored_cache_file,
     written |-> {articles[uncached[k]].url_hash : k \in 1..Len(uncached)}
                    \cap DOMAIN scored_cache_file]

\* score_articles_with_claude up to the batch loop: the early return, the
\* cache load and the partition into scored_articles and uncached. Every
\* call gets Article objects as the fetch builds them.
ScoreBegin ==
    /\ score_pc \in {"idle", "returned"}
    /\ runs < MaxRuns
    /\ runs' = runs + 1
    /\ first_run' = IF runs = 1 THEN Snapshot ELSE first_run
    /\ run_start' = now
    /\ oracle_calls' = <<>>
    /\ next_batch' = 0
    /\ IF articles = <<>>
       THEN /\ score_pc' = "returned"
            /\ scored_articles' = <<>>
            /\ uncached' = <<>>
            /\ UNCHANGED <<articles, cache, file_at_load>>
       ELSE LET loaded == LoadScoredCache(scored_cache_file, now)
                fresh == [i \in DOMAIN articles |->
                            [articles[i] EXCEPT !.score = 0, !.category = "none"]]
                hits == {i \in DOMAIN fresh : CacheHit(fresh[i], loaded)}
            IN /\ file_at_load' = scored_cache_file
               /\ cache' = loaded
               /\ articles' = [i \in DOMAIN fresh |-> FromCache(fresh[i], loaded)]
               /\ scored_articles' = Positions(Len(fresh), hits)
               /\ uncached' = Positions(Len(fresh), (DOMAIN fresh) \ hits)
               /\ score_pc' = "batching"
    /\ UNCHANGED <<feedVars, themeCallVars, poolVars, adjustVars, probeVars,
                   runVars, dedupVars, divVars, mergeVars, themeVars, now,
                   scored_cache_file>>

\* one iteration of the batch loop: the oracle call and what follows it
ScoreBatch ==
    /\ score_pc = "batching"
    /\ next_batch < Len(uncached)
    /\ \E response \in Responses :
          LET bt == BatchAt(uncached, next_batch)
              st == [articles |-> articles, cache |-> cache,
                     scored |-> scored_articles, raised |-> FALSE]
              after == ScoreOneBatch(st, bt, response, now)
          IN /\ articles' = after.articles
             /\ cache' = after.cache
             /\ scored_articles' = after.scored
             /\ oracle_calls' = Append(oracle_calls,
                                       [batch |-> bt,
                                        outcome |-> Outcome(st, bt, response, now)])
    /\ next_batch' = next_batch + BatchSize
    /\ UNCHANGED <<feedVars, themeCallVars, poolVars, adjustVars, probeVars,
                   runVars, dedupVars, divVars, mergeVars, themeVars, now,
                   scored_cache_file, score_pc, runs, run_start,
                   file_at_load, uncached, first_run>>

\* save_scored_cache(cache); return scored_articles
ScoreEnd ==
    /\ score_pc = "batching"
    /\ next_batch >= Len(uncached)
    /\ scored_cache_file' = cache
    /\ score_pc' = "returned"
    /\ UNCHANGED <<feedVars, themeCallVars, poolVars, adjustVars, probeVars,
                   runVars, dedupVars, divVars, mergeVars, themeVars, now,
                   runs, run_start, file_at_load, articles, cache,
                   uncached, next_batch, scored_articles, oracle_calls, first_run>>

\* Time passes between two calls; the clock counts hours and a call takes
\* less than one.
Tick ==
    /\ score_pc = "returned"
    /\ now < MaxTime
    /\ now' = now + 1
    /\ UNCHANGED <<feedVars, themeCallVars, poolVars, adjustVars, probeVars,
                   runVars, dedupVars, scoreVars, divVars, mergeVars,
                   themeVars>>

NextScore == ScoreBegin \/ ScoreBatch \/ ScoreEnd \/ Tick

SpecScore == InitScore /\ [][NextScore]_vars

----------------------------------------------------------------------------
(* Claims about the Relevance Scorer                                       *)

Returned == runs >= 1 /\ score_pc = "returned"

\* the url_hash was part of a batch sent to the oracle in the current call
Called(fp) ==
    \E c \in 1..Len(oracle_calls) :
        \E k \in 1..Len(oracle_calls[c].batch) :
            articles[oracle_calls[c].batch[k]].url_hash = fp

\* the file held an unexpired entry for the url_hash when the call loaded it
ValidAtLoad(fp) ==
    /\ fp \in DOMAIN file_at_load
    /\ run_start - file_at_load[fp].timestamp < ScoredHours

\* C4: an article whose url_hash has an unexpired Score Cache entry is in no
\* oracle batch of the call and has exactly the cached score and category,
\* during the batch loop and when the call returns.
C4_CacheHitNotRescored ==
    (runs >= 1 /\ score_pc \in {"batching", "returned"}) =>
        \A i \in DOMAIN articles :
            ValidAtLoad(articles[i].url_hash) =>
                /\ ~Called(articles[i].url_hash)
                /\ articles[i].score = file_at_load[articles[i].url_hash].score
                /\ articles[i].category = file_at_load[articles[i].url_hash].category

\* a call that returned with one article served from the cache and another
\* sent to the oracle
C4_Witness ==
    /\ Returned
    /\ \E i \in DOMAIN articles : ValidAtLoad(articles[i].url_hash)
    /\ \E i \in DOMAIN articles : Called(articles[i].url_hash)

WithinTTL ==
    /\ runs = 2
    /\ score_pc = "returned"
    /\ run_start - first_run.start < ScoredHours

\* C5 as stated: when the second call starts within the TTL of the first,
\* every article the first call returned is in no oracle batch of the second
\* and gets the score and category the first call gave it.
C5_AsStated ==
    WithinTTL =>
        \A i \in DOMAIN articles :
            i \in Range(first_run.returned) =>
                /\ ~Called(articles[i].url_hash)
                /\ articles[i].score = first_run.articles[i].score
                /\ articles[i].category = first_run.articles[i].category

\* C5 amended: when the second call starts within the TTL of the first,
\* every article whose url_hash the first call wrote to the Score Cache is
\* in no oracle batch of the second call and gets the score and category
\* the first call stored for it.
C5_CachedScoresReproduced ==
    WithinTTL =>
        \A i \in DOMAIN articles :
            articles[i].url_hash \in first_run.written =>
                /\ ~Called(articles[i].url_hash)
                /\ articles[i].score = first_run.saved[articles[i].url_hash].score
                /\ articles[i].category = first_run.saved[articles[i].url_hash].category

\* a second call within the TTL that found scores of the first call in the
\* cache and sent the articles the first call had not cached to the oracle
C5_Witness ==
    /\ WithinTTL
    /\ run_start > first_run.start
    /\ first_run.written # {}
    /\ \E i \in DOMAIN articles :
          /\ articles[i].url_hash \notin first_run.written
          /\ Called(articles[i].url_hash)

\* C6: when the oracle call of a batch fails (no response, an unparsable
\* one, or an error on one of its entries), every article of the batch is
\* returned with score 50 and category 'news', and every uncached article
\* has still been sent to the oracle when the call returns.
C6_BatchFailureDefaults ==
    Returned =>
        /\ \A c \in 1..Len(oracle_calls) :
              oracle_calls[c].outcome # "parsed" =>
                  \A k \in 1..Len(oracle_calls[c].batch) :
                      LET pos == oracle_calls[c].batch[k]
                      IN /\ articles[pos].score = 50
                         /\ articles[pos].category = "news"
                         /\ pos \in Range(scored_articles)
        /\ \A k \in 1..Len(uncached) : Called(articles[uncached[k]].url_hash)

\* the first batch failed and the second was scored by the oracle
C6_Witness ==
    /\ Returned
    /\ Len(oracle_calls) = 2
    /\ oracle_calls[1].outcome = "failed"
    /\ oracle_calls[2].outcome = "parsed"
    /\ \E k \in 1..Len(oracle_calls[2].batch) :
          articles[oracle_calls[2].batch[k]].score = 90

\* C7: every article passed to score_articles_with_claude is in the list it
\* returns, with a score and a category, whatever the oracle answered.
C7_AsStated ==
    Returned =>
        \A i \in DOMAIN articles :
            /\ i \in Range(scored_articles)
            /\ articles[i].category # "none"

----------------------------------------------------------------------------
(* Diversity Limiter                                                       *)

\* the list in the order it was passed in
SortByScoreUnsorted(list) == list

\* sorted(articles, key=lambda a: a.score, reverse=True): stable, so equal
\* scores keep the order of the list
SortByScore(list) ==
    StableSortAsc(list, [i \in 1..Len(list) |-> 0 - list[i].score])

\* default_max for the category
DefaultMax(category) == IF category = "local" THEN MaxPerLocal ELSE MaxPerSource

\* max_for_source: the source type's max_per_source when the source has a
\* configured type that sets it, else default_max
MaxForSource(source, category) ==
    LET type == SourceType(source)
    IN IF type # "none" /\ type \in DOMAIN SourceTypes /\ SourceTypes[type].has_max
       THEN SourceTypes[type].max_per_source
       ELSE DefaultMax(category)

\* the test that admits one article more than the limit
UnderLimitInclusive(count, limit) == count <= limit

\* if source_counts[article.source] < max_for_source
UnderLimit(count, limit) == count < limit

\* source_counts[source], a defaultdict(int)
CountOf(counts, source) == IF source \in DOMAIN counts THEN counts[source] ELSE 0

\* one iteration of "for article in sorted_articles"
DiversityStep(st, article, category) ==
    IF UnderLimit(CountOf(st.source_counts, article.source),
                  MaxForSource(article.source, category))
    THEN [source_counts |-> DictSet(st.source_counts, article.source,
                                    CountOf(st.source_counts, article.source) + 1),
          diverse_articles |-> Append(st.diverse_articles, article)]
    ELSE st

RECURSIVE DiversityWalk(_, _, _)
DiversityWalk(st, list, category) ==
    IF list = <<>> THEN st
    ELSE DiversityWalk(DiversityStep(st, Head(list), category), Tail(list), category)

\* apply_diversity_limits(articles, category)
ApplyDiversityLimits(list, category) ==
    DiversityWalk([source_counts |-> NoEntries, diverse_articles |-> <<>>],
                  SortByScore(list), category).diverse_articles

----------------------------------------------------------------------------
(* Inputs of the Diversity Limiter                                         *)

MaxScored == 4

\* a print source, a broadcast source, an unmapped one and one whose type is
\* not configured
ScoredFrom == {"Gazette", "Radio", "Blog", "Wire"}

ScoredScores == {60, 90}

InitDiversity ==
    /\ PodcastFeedIdle
    /\ ThemeCallIdle
    /\ PoolIdle
    /\ AdjustIdle
    /\ ProbeIdle
    /\ RunIdle
    /\ DedupIdle
    /\ ScoreIdle
    /\ MergeIdle
    /\ ThemeIdle
    /\ now = 0
    /\ \E n \in 0..MaxScored :
          \E src \in [1..n -> ScoredFrom], sc \in [1..n -> ScoredScores] :
              div_articles = [i \in 1..n |->
                                [NewArticle(i, i, i, src[i]) EXCEPT !.score = sc[i]]]
    /\ div_category \in {"local", "news"}
    /\ diverse_articles = <<>>
    /\ div_pc = "scored"

\* diverse_new = apply_diversity_limits(new_items, cat_key)
LimitDiversity ==
    /\ div_pc = "scored"
    /\ diverse_articles' = ApplyDiversityLimits(div_articles, div_category)
    /\ div_pc' = "limited"
    /\ UNCHANGED <<feedVars, themeCallVars, poolVars, adjustVars, probeVars,
                   runVars, dedupVars, now, scoreVars, mergeVars, themeVars,
                   div_articles, div_category>>

NextDiversity == LimitDiversity

SpecDiversity == InitDiversity /\ [][NextDiversity]_vars

----------------------------------------------------------------------------
(* Claims about the Diversity Limiter                                      *)

\* the cap of a source in a category: the max_per_source of the source's
\* type if the type sets one, else max_per_local for 'local', else
\* max_per_source
Cap(source, category) ==
    IF source \in DOMAIN SourceMap
       /\ SourceMap[source] \in DOMAIN SourceTypes
       /\ SourceTypes[SourceMap[source]].has_max
    THEN SourceTypes[SourceMap[source]].max_per_source
    ELSE IF category = "local" THEN MaxPerLocal ELSE MaxPerSource

FromSource(list, source) == {i \in 1..Len(list) : list[i].source = source}

InDiverse(a) == \E k \in 1..Len(diverse_articles) : diverse_articles[k].id = a.id

\* a ranks before b: higher score, or the same score and earlier in the input
RanksBefore(a, b) == a.score > b.score \/ (a.score = b.score /\ a.id < b.id)

\* C8: in the list apply_diversity_limits returns, no source has more
\* articles than its cap for the category.
C8_DiversityCap ==
    div_pc = "limited" =>
        \A s \in ScoredFrom :
            Cardinality(FromSource(diverse_articles, s)) <= Cap(s, div_category)

\* a typed source and an untyped one were both cut down to their caps
C8_Witness ==
    /\ div_pc = "limited"
    /\ div_category = "news"
    /\ Cardinality(FromSource(div_articles, "Gazette")) = 3
    /\ Cardinality(FromSource(diverse_articles, "Gazette")) = 2
    /\ Cardinality(FromSource(div_articles, "Blog")) = 1
    /\ Len(diverse_articles) = 3

\* C9: for each source the output holds exactly the min(cap, number in the
\* input) highest-scoring articles of the source, equal scores taken in input
\* order, and the output is in descending score order with equal scores in
\* input order.
C9_GreedyTopByScore ==
    div_pc = "limited" =>
        /\ \A k \in 1..Len(diverse_articles) : diverse_articles[k] \in Range(div_articles)
        /\ \A s \in ScoredFrom :
              /\ Cardinality(FromSource(diverse_articles, s))
                    = Min(Cap(s, div_category), Cardinality(FromSource(div_articles, s)))
              /\ \A a, b \in Range(div_articles) :
                    (a.source = s /\ b.source = s /\ InDiverse(a) /\ ~InDiverse(b))
                        => RanksBefore(a, b)
        /\ \A i, j \in 1..Len(diverse_articles) :
              i < j => RanksBefore(diverse_articles[i], diverse_articles[j])

\* a source over its cap lost its lowest-scoring article, which came first
\* in the input, and kept two of equal score
C9_Witness ==
    /\ div_pc = "limited"
    /\ Len(div_articles) = 4
    /\ div_articles[1].source = "Gazette" /\ div_articles[1].score = 60
    /\ ~InDiverse(div_articles[1])
    /\ \E a, b \in Range(diverse_articles) :
          a.id # b.id /\ a.source = "Gazette" /\ b.source = "Gazette" /\ a.score = b.score

----------------------------------------------------------------------------
(* Feed Merger: the part of main from the fetch cutoff to the Shown Cache  *)
(* update. Time is counted in hours.                                       *)

HoursPerDay == 24

\* CATEGORIES.keys()
FeedCategories == {"local", "news"}

\* LIMITS['max_feed_size']
MaxFeedSize == 2

\* LIMITS['max_new_per_category']: set for some categories only
MaxNewPerCategory == [c \in {"news"} |-> 1]

\* LIMITS['min_claude_score']
MinClaudeScore == 60

\* SYSTEM['cache_expiry']['shown_days']
ShownDays == 2

\* the load that keeps an entry whose age has reached the expiry
LoadShownCacheInclusive(file, t) ==
    [u \in {x \in DOMAIN file : file[x] >= t - ShownDays * HoursPerDay} |-> file[u]]

\* load_shown_cache at time t: the entries with timestamp > cutoff
LoadShownCache(file, t) ==
    [u \in {x \in DOMAIN file : file[x] > t - ShownDays * HoursPerDay} |-> file[u]]

\* category = article.category or 'news'
CategoryOrNews(article) ==
    IF article.category = "none" THEN "news" ELSE article.category

\* categorized[cat_key]
Categorized(list, cat) == SelectSeq(list, LAMBDA a : CategoryOrNews(a) = cat)

\* the items of the persisted feed with pub_date > retention_cutoff
ExistingArticles(items, retention_cutoff) ==
    SelectSeq(items, LAMBDA item : item.date_published > retention_cutoff)

\* diverse_new = diverse_new[:cat_cap] when the category has a cap
ApplyCategoryCap(list, cat) ==
    IF cat \in DOMAIN MaxNewPerCategory
       /\ MaxNewPerCategory[cat] # 0
       /\ Len(list) > MaxNewPerCategory[cat]
    THEN SubSeq(list, 1, MaxNewPerCategory[cat])
    ELSE list

\* what the merge reads of a new Article
FeedEntry(article) ==
    [link |-> article.url_hash, pub_date |-> article.pub_date,
     source |-> article.source, score |-> article.score]

\* the object built from a persisted item: score 0
Rehydrate(item) ==
    [link |-> item.url, pub_date |-> item.date_published,
     source |-> item.source, score |-> 0]

\* all_items left in the order it was concatenated
SortByPubDateUnsorted(list) == list

\* all_items.sort(key=lambda a: a.pub_date, reverse=True)
SortByPubDate(list) ==
    StableSortAsc(list, [i \in 1..Len(list) |-> 0 - list[i].pub_date])

\* generate_json_feed: one item per article, at most max_feed_size of them
GenerateJsonFeed(list) ==
    [i \in 1..Min(Len(list), MaxFeedSize) |->
        [url |-> list[i].link, date_published |-> list[i].pub_date,
         source |-> list[i].source]]

\* all_items = diverse_new + [the objects built from existing_articles]
AllItems(cat, items, quality, retention_cutoff) ==
    LET existing_articles == ExistingArticles(items, retention_cutoff)
        new_items == Categorized(quality, cat)
        diverse_new == ApplyCategoryCap(ApplyDiversityLimits(new_items, cat), cat)
    IN [i \in 1..Len(diverse_new) |-> FeedEntry(diverse_new[i])]
       \o [i \in 1..Len(existing_articles) |-> Rehydrate(existing_articles[i])]

\* one iteration of "for cat_key in CATEGORIES.keys()"
MergeCategory(cat, items, quality, retention_cutoff) ==
    LET merged == AllItems(cat, items, quality, retention_cutoff)
    IN GenerateJsonFeed(SubSeq(SortByPubDate(merged), 1,
                               Min(Len(merged), MaxFeedSize)))

\* shown marking by publication: only the articles that the diversity limit
\* and the category cap let through are recorded
MarkShownPublished(shown, quality, t) ==
    LET published ==
            UNION { LET diverse_new ==
                            ApplyCategoryCap(
                                ApplyDiversityLimits(Categorized(quality, cat), cat),
                                cat)
                    IN {diverse_new[i].url_hash : i \in 1..Len(diverse_new)} :
                    cat \in FeedCategories }
    IN [u \in DOMAIN shown \cup published |->
           IF u \in published THEN t ELSE shown[u]]

\* shown_cache[article.url_hash] = now_ts for every quality article
MarkShown(shown, quality, t) ==
    [u \in DOMAIN shown \cup {quality[i].url_hash : i \in 1..Len(quality)} |->
        IF \E i \in 1..Len(quality) : quality[i].url_hash = u THEN t ELSE shown[u]]

----------------------------------------------------------------------------
(* Inputs of the Feed Merger                                               *)

MaxNew == 2
MaxMergeRuns == 2
MaxClock == 49

MergeLinks == {1, 2}

\* an unmapped source and a broadcast source: both get the default limit
CollectedFrom == {"Blog", "Radio"}

QualityScores == {sc \in {30, 60, 90} : sc >= MinClaudeScore}

\* What lines 1264-1314 of main can hand to the merge: articles with distinct
\* links that are not in the Shown Cache, published no earlier than
\* cutoff_date (the oldest and the newest case), with a score that passed the
\* quality filter.
QualityLists(n, cutoff_date, shown, t) ==
    { [i \in 1..n |->
        [NewArticle(i, p[i].link, i, p[i].source) EXCEPT
            !.pub_date = p[i].pub_date, !.category = p[i].category,
            !.score = p[i].score]] :
      p \in { q \in [1..n -> [link : MergeLinks \ DOMAIN shown,
                              pub_date : {cutoff_date, t},
                              category : FeedCategories,
                              source : CollectedFrom,
                              score : QualityScores]] :
                \A i, j \in 1..n : i < j => q[i].link < q[j].link } }

InitMerge ==
    /\ PodcastFeedIdle
    /\ ThemeCallIdle
    /\ PoolIdle
    /\ AdjustIdle
    /\ ProbeIdle
    /\ RunIdle
    /\ DedupIdle
    /\ ScoreIdle
    /\ DiversityIdle
    /\ ThemeIdle
    /\ now = 0
    /\ config \in [lookback_hours : {24, 48}, feed_retention_days : {1, 3}]
    /\ quality_articles = <<>>
    /\ shown_cache = NoEntries
    /\ shown_cache_file = NoEntries
    /\ feed_files = [cat \in FeedCategories |-> <<>>]
    /\ fetched_at = 0
    /\ merged_at = 0
    /\ merge_runs = 0
    /\ merge_pc = "idle"
    /\ all_items = [cat \in FeedCategories |-> <<>>]

\* main up to the categorization of the quality articles
Collect ==
    /\ merge_pc \in {"idle", "merged"}
    /\ merge_runs < MaxMergeRuns
    /\ LET cutoff_date == now - config.lookback_hours
           shown == LoadShownCache(shown_cache_file, now)
       IN /\ shown_cache' = shown
          /\ \E n \in 0..MaxNew :
                quality_articles' \in QualityLists(n, cutoff_date, shown, now)
    /\ fetched_at' = now
    /\ merge_runs' = merge_runs + 1
    /\ merge_pc' = "collected"
    /\ UNCHANGED <<feedVars, themeCallVars, poolVars, adjustVars, probeVars,
                   runVars, dedupVars, now, scoreVars, divVars, themeVars,
                   config, shown_cache_file,
                   feed_files, merged_at, all_items>>

\* main from "Load existing feeds" to save_shown_cache
Merge ==
    /\ merge_pc = "collected"
    /\ LET retention_cutoff == now - config.feed_retention_days * HoursPerDay
       IN /\ feed_files' = [cat \in FeedCategories |->
                           MergeCategory(cat, feed_files[cat], quality_articles,
                                         retention_cutoff)]
       /\ all_items' = [cat \in FeedCategories |->
                           AllItems(cat, feed_files[cat], quality_articles,
                                    retention_cutoff)]
    /\ shown_cache' = MarkShown(shown_cache, quality_articles, now)
    /\ shown_cache_file' = shown_cache'
    /\ merged_at' = now
    /\ merge_pc' = "merged"
    /\ UNCHANGED <<feedVars, themeCallVars, poolVars, adjustVars, probeVars,
                   runVars, dedupVars, now, scoreVars, divVars, themeVars,
                   config, quality_articles,
                   fetched_at, merge_runs>>

\* the clock: an hour goes by between the fetch and the merge of a run, a day
\* between two runs
Wait ==
    /\ \/ merge_pc = "collected" /\ now = fetched_at /\ now' = now + 1
       \/ merge_pc = "merged" /\ now' = now + HoursPerDay
    /\ now' <= MaxClock
    /\ UNCHANGED <<feedVars, themeCallVars, poolVars, adjustVars, probeVars,
                   runVars, dedupVars, scoreVars, divVars, mergeVars,
                   themeVars>>

NextMerge == Collect \/ Merge \/ Wait

SpecMerge == InitMerge /\ [][NextMerge]_vars

----------------------------------------------------------------------------
(* Claims about the Feed Merger                                            *)

RetentionWindow == config.feed_retention_days * HoursPerDay

\* C10: every item of a feed the merge has written, carried over or new, was
\* published at most feed_retention_days before the merge.
C10_AsStated ==
    merge_pc = "merged" =>
        \A cat \in FeedCategories :
            \A k \in 1..Len(feed_files[cat]) :
                merged_at - feed_files[cat][k].date_published <= RetentionWindow

\* C11: no feed the merge has written holds two items with the same link.
C11_AsStated ==
    merge_pc = "merged" =>
        \A cat \in FeedCategories :
            \A i, j \in 1..Len(feed_files[cat]) :
                i # j => feed_files[cat][i].url # feed_files[cat][j].url

\* the items of all_items that the written feed does not hold, as positions
\* of the sorted list
LeftOut(cat) == (MaxFeedSize + 1)..Len(all_items[cat])

\* C12: every feed written has at most max_feed_size items in descending
\* date_published order, every item of it is one of all_items, and no item
\* of all_items beyond those written is more recent than a written one.
C12_SizeAndOrder ==
    merge_pc = "merged" =>
        \A cat \in FeedCategories :
            LET feed == feed_files[cat]
                dates == [i \in 1..Len(all_items[cat]) |-> all_items[cat][i].pub_date]
            IN /\ Len(feed) <= MaxFeedSize
               /\ Len(feed) = Min(Len(all_items[cat]), MaxFeedSize)
               /\ \A i, j \in 1..Len(feed) :
                     i < j => feed[i].date_published >= feed[j].date_published
               /\ \A i \in 1..Len(feed) :
                     \E k \in 1..Len(all_items[cat]) :
                         /\ all_items[cat][k].link = feed[i].url
                         /\ all_items[cat][k].pub_date = feed[i].date_published
               /\ \A d \in Range(dates) :
                     \* the dates written are the Len(feed) largest of all_items
                     Cardinality({k \in 1..Len(feed) : feed[k].date_published = d})
                         <= Cardinality({k \in DOMAIN dates : dates[k] = d})
               /\ \A k \in DOMAIN dates :
                     Cardinality({i \in 1..Len(feed) : feed[i].date_published = dates[k]})
                         < Cardinality({i \in DOMAIN dates : dates[i] = dates[k]})
                     => \A i \in 1..Len(feed) : feed[i].date_published >= dates[k]

\* a merge of a second run that had new and carried-over items, more than
\* the feed holds and not in date order, and left an older one out
C12_Witness ==
    /\ merge_pc = "merged"
    /\ merge_runs = 2
    /\ Len(all_items["local"]) > MaxFeedSize
    /\ all_items["local"][1].pub_date < all_items["local"][2].pub_date
    /\ all_items["local"][Len(all_items["local"])].score = 0
    /\ feed_files["local"][1].date_published > feed_files["local"][2].date_published

----------------------------------------------------------------------------
(* Theme Selector: score_articles_for_theme, generate_podcast_feed and the *)
(* part of main that calls it and marks the selected links shown.          *)

PODCAST_SHOWN_TTL_DAYS == 7

THEME_SCORE_CACHE_TTL_DAYS == 7

\* podcast_schedule.json: today's categories and the selection settings
ThemeCategories == {"ai-tech"}

\* max_articles
MaxThemeArticles == 2

\* min_score
MinScore == 25

\* include_top_from_other
IncludeBonus == 2

\* other_min_score
BonusMinScore == 70

\* bonus_max_per_category
BonusMaxPerCategory == 1

\* ai_tech_no_context_penalty
AiTechPenalty == 30

\* rural_context_signals
RuralContextSignals == {"rural"}

\* the theme score a batch failure and the fill-in give
ThemeDefaultScore == 50

\* the load that drops an entry a day before its TTL
LoadPodcastShownCacheEarlyExpiry(file, t) ==
    [u \in {x \in DOMAIN file :
                file[x] > t - (PODCAST_SHOWN_TTL_DAYS - 1) * HoursPerDay} |-> file[u]]

\* load_podcast_shown_cache at time t: the entries with shown_at > cutoff
LoadPodcastShownCache(file, t) ==
    [u \in {x \in DOMAIN file :
                file[x] > t - PODCAST_SHOWN_TTL_DAYS * HoursPerDay} |-> file[u]]

\* save_theme_score_cache at time t: the entries with cached_at >= cutoff
SaveThemeScoreCache(theme_cache, t) ==
    [k \in {x \in DOMAIN theme_cache :
                theme_cache[x].cached_at >= t - THEME_SCORE_CACHE_TTL_DAYS * HoursPerDay}
        |-> theme_cache[k]]

\* The walk over the batches carries scored_results, theme_cache, whether an
\* entry raised an error and how each batch ended.

\* one iteration of "for score_data in scores" for an entry that has its keys
ThemeEntry(st, bt, e, t) ==
    IF e.article \in 1..Len(bt)
    THEN [st EXCEPT
            !.results = Append(@, [article |-> bt[e.article],
                                   theme_score |-> e.theme_score]),
            !.cache = DictSet(@, bt[e.article].url_hash,
                              [score |-> e.theme_score, cached_at |-> t])]
    ELSE st

\* the entry loop; an entry without its keys raises and ends it
RECURSIVE ThemeEntries(_, _, _, _)
ThemeEntries(st, bt, entries, t) ==
    IF entries = <<>> THEN st
    ELSE IF Head(entries).kind = "malformed" THEN [st EXCEPT !.raised = TRUE]
    ELSE ThemeEntries(ThemeEntry(st, bt, Head(entries), t), bt, Tail(entries), t)

\* the except handlers: every article of the batch is appended with 50
ThemeDefaults(st, bt) ==
    [st EXCEPT
        !.results = @ \o [k \in 1..Len(bt) |->
                            [article |-> bt[k], theme_score |-> ThemeDefaultScore]],
        !.raised = FALSE]

\* the fill-in after the try: every article of the batch that the results
\* since batch_start_count do not name is appended with 50
ThemeFill(st, bt, batch_start_count) ==
    LET scored_in_batch ==
            {st.results[k].article.url_hash :
                k \in (batch_start_count + 1)..Len(st.results)}
        missing == SelectSeq(bt, LAMBDA a : a.url_hash \notin scored_in_batch)
    IN [st EXCEPT
          !.results = @ \o [k \in 1..Len(missing) |->
                              [article |-> missing[k],
                               theme_score |-> ThemeDefaultScore]]]

\* how the oracle call of a batch ended
ThemeOutcome(st, bt, response, t) ==
    IF response.kind \in {"api_error", "bad_json"} THEN "failed"
    ELSE IF ThemeEntries(st, bt, response.scores, t).raised THEN "entry_error"
    ELSE "parsed"

\* one iteration of the batch loop
ThemeOneBatch(st, bt, response, t) ==
    LET tried ==
            IF response.kind \in {"api_error", "bad_json"} THEN ThemeDefaults(st, bt)
            ELSE LET walked == ThemeEntries(st, bt, response.scores, t)
                 IN IF walked.raised THEN ThemeDefaults(walked, bt) ELSE walked
    IN [ThemeFill(tried, bt, Len(st.results)) EXCEPT
          !.outcomes = Append(@, ThemeOutcome(st, bt, response, t))]

\* the batch loop, done batches already walked
RECURSIVE ThemeBatches(_, _, _, _, _)
ThemeBatches(st, uncached_list, responses, done, t) ==
    IF done * BatchSize >= Len(uncached_list) THEN st
    ELSE ThemeBatches(ThemeOneBatch(st, BatchAt(uncached_list, done * BatchSize),
                                    responses[done + 1], t),
                      uncached_list, responses, done + 1, t)

\* if cache_key in theme_cache: load_theme_score_cache returns the file as
\* it is, so every entry of the file is a hit
ThemeCacheHit(article, theme_cache) == article.url_hash \in DOMAIN theme_cache

\* the articles of the list that have no theme score in the file
ThemeUncached(list, file) ==
    SelectSeq(list, LAMBDA a : ~ThemeCacheHit(a, file))

\* the number of oracle calls the list needs
ThemeCalls(list, file) ==
    (Len(ThemeUncached(list, file)) + BatchSize - 1) \div BatchSize

\* score_articles_for_theme(articles, ...) at time t with the theme score
\* file as it is and the oracle answering responses[1], responses[2], ...
ScoreArticlesForTheme(list, file, responses, t) ==
    LET cached_list == SelectSeq(list, LAMBDA a : ThemeCacheHit(a, file))
        scored_results ==
            [k \in 1..Len(cached_list) |->
                [article |-> cached_list[k],
                 theme_score |-> file[cached_list[k].url_hash].score]]
        uncached_list == ThemeUncached(list, file)
    IN IF uncached_list = <<>>
       THEN [results |-> scored_results, file |-> file, outcomes |-> <<>>]
       ELSE LET st == ThemeBatches([results |-> scored_results, cache |-> file,
                                    raised |-> FALSE, outcomes |-> <<>>],
                                   uncached_list, responses, 0, t)
            IN [results |-> st.results,
                file |-> SaveThemeScoreCache(st.cache, t),
                outcomes |-> st.outcomes]

\* the pool and the bonus candidates without their score floors
ThemePoolNoFloor(cached, shown) ==
    SelectSeq(cached, LAMBDA a : /\ a.category \in ThemeCategories
                                 /\ a.url_hash \notin DOMAIN shown)

\* theme_pool: in the theme's categories, at least min_score, not shown
ThemePool(cached, shown) ==
    SelectSeq(cached, LAMBDA a : /\ a.category \in ThemeCategories
                                 /\ a.score >= MinScore
                                 /\ a.url_hash \notin DOMAIN shown)

\* if not theme_scored and theme_pool: the quality scores stand in
ThemeFallback(theme_scored, theme_pool) ==
    IF theme_scored = <<>> /\ theme_pool # <<>>
    THEN [k \in 1..Len(theme_pool) |->
            [article |-> theme_pool[k], theme_score |-> theme_pool[k].score]]
    ELSE theme_scored

\* _keyword_match_count(text, rural_context_signals) > 0
HasRuralContext(article) == article.keywords \cap RuralContextSignals # {}

\* final_score: an ai-tech article without rural context is demoted
FinalScore(article, theme_score) ==
    IF article.category = "ai-tech" /\ ~HasRuralContext(article)
    THEN Max(0, theme_score - AiTechPenalty)
    ELSE theme_score

\* scored_pool in the order of theme_scored
ScoredPool(theme_scored) ==
    [k \in 1..Len(theme_scored) |->
        [article |-> theme_scored[k].article,
         final_score |-> FinalScore(theme_scored[k].article,
                                    theme_scored[k].theme_score),
         theme_score |-> theme_scored[k].theme_score]]

\* scored_pool.sort(key=lambda x: x[1], reverse=True)
SortByFinalScore(list) ==
    StableSortAsc(list, [i \in 1..Len(list) |-> 0 - list[i].final_score])

\* theme_articles = scored_pool[:max_articles]
ThemeArticles(theme_scored) ==
    SubSeq(SortByFinalScore(ScoredPool(theme_scored)), 1,
           Min(Len(theme_scored), MaxThemeArticles))

\* other_filtered: outside the theme's categories, at least other_min_score,
\* not a theme pick, not shown
OtherFiltered(cached, theme_articles, shown) ==
    LET theme_urls == {theme_articles[k].article.url_hash :
                          k \in 1..Len(theme_articles)}
    IN SelectSeq(cached, LAMBDA a : /\ a.category \notin ThemeCategories
                                    /\ a.score >= BonusMinScore
                                    /\ a.url_hash \notin theme_urls
                                    /\ a.url_hash \notin DOMAIN shown)

\* scored_other.sort(key=lambda x: x[1], reverse=True)
SortByThemeScore(list) ==
    StableSortAsc(list, [i \in 1..Len(list) |-> 0 - list[i].theme_score])

\* the category test that lets one article more through
UnderCategoryCapInclusive(count) == count <= BonusMaxPerCategory

\* not (category_counts[cat] >= max_per_category)
UnderCategoryCap(count) == count < BonusMaxPerCategory

\* one iteration of "for article, theme_score, cat in scored_other"; stop is
\* the break
BonusStep(st, scored) ==
    IF st.stop \/ ~UnderCategoryCap(CountOf(st.category_counts, scored.article.category))
    THEN st
    ELSE [bonus_entries |-> Append(st.bonus_entries,
                                   [article |-> scored.article,
                                    final_score |-> scored.theme_score,
                                    theme_score |-> scored.theme_score]),
          category_counts |-> DictSet(st.category_counts, scored.article.category,
                                      CountOf(st.category_counts,
                                              scored.article.category) + 1),
          stop |-> Len(st.bonus_entries) + 1 >= IncludeBonus]

RECURSIVE BonusWalk(_, _)
BonusWalk(st, list) ==
    IF list = <<>> THEN st ELSE BonusWalk(BonusStep(st, Head(list)), Tail(list))

\* bonus_entries from the theme scores of other_filtered
BonusEntries(other_scored) ==
    BonusWalk([bonus_entries |-> <<>>, category_counts |-> NoEntries, stop |-> FALSE],
              SortByThemeScore(other_scored)).bonus_entries

\* one item of the podcast feed
PodcastItem(entry, bonus_urls) ==
    [url |-> entry.article.url_hash,
     quality_score |-> entry.article.score,
     theme_score |-> entry.theme_score,
     final_score |-> entry.final_score,
     category |-> entry.article.category,
     is_bonus |-> entry.article.url_hash \in bonus_urls]

\* feed["items"] for all_entries = theme_articles + bonus_entries
PodcastItems(theme_articles, bonus_entries) ==
    LET all_entries == theme_articles \o bonus_entries
        bonus_urls == {bonus_entries[k].article.url_hash : k \in 1..Len(bonus_entries)}
    IN [k \in 1..Len(all_entries) |-> PodcastItem(all_entries[k], bonus_urls)]

\* podcast_shown_cache[url] = shown_at for the selected links, then saved;
\* nothing is saved when no link was selected
MarkPodcastShown(file, shown, selected_urls, t) ==
    IF selected_urls = {} THEN file
    ELSE [u \in DOMAIN shown \cup selected_urls |->
            IF u \in selected_urls THEN t ELSE shown[u]]

----------------------------------------------------------------------------
(* Inputs of the Theme Selector                                            *)

MaxPool == 3
MaxThemeRuns == 2
MaxThemeClock == 168

\* the largest Weekly Pool for which a second run is explored
MaxRerunPool == 2

\* a theme category with and without rural context, below and above
\* min_score; three other categories, below and above other_min_score
PoolKinds ==
    {[category |-> c, keywords |-> k, score |-> sc] :
        c \in {"ai-tech"}, k \in {{}, {"rural"}}, sc \in {20, 60}}
    \cup {[category |-> c, keywords |-> {}, score |-> sc] :
            c \in {"news", "local", "climate"}, sc \in {60, 80}}

\* the Weekly Pool: articles with different links
WeeklyPools(n) ==
    { [i \in 1..n |->
        [NewArticle(i, i, i, "Blog") EXCEPT
            !.category = kind[i].category, !.keywords = kind[i].keywords,
            !.score = kind[i].score]] :
      kind \in [1..n -> PoolKinds] }

\* one element of the JSON array: {"article": n, "theme_score": s}
ThemeVerdict(n, theme_score) ==
    [kind |-> "entry", article |-> n, theme_score |-> theme_score]

\* what client.messages.create and json.loads can give for a batch: no
\* response, an unparsable one, an empty array, a short one, a full one in
\* either order, one that repeats an article, one with an element that
\* lacks its keys
ThemeResponses ==
    {[kind |-> "api_error"], [kind |-> "bad_json"]}
    \cup {[kind |-> "json", scores |-> sc] :
            sc \in {<<>>,
                    <<ThemeVerdict(1, 90)>>,
                    <<ThemeVerdict(1, 90), ThemeVerdict(2, 40)>>,
                    <<ThemeVerdict(2, 90), ThemeVerdict(1, 40)>>,
                    <<ThemeVerdict(1, 90), ThemeVerdict(1, 40)>>,
                    <<ThemeVerdict(1, 90), [kind |-> "malformed"]>>}}

\* generate_podcast_feed: "if not all_entries: return set()" leaves the file
\* alone; else the feed is written with the entries' links in order
WritePodcastFeed(feed, items, t) ==
    IF items = <<>> THEN feed
    ELSE [exists |-> TRUE, urls |-> [k \in 1..Len(items) |-> items[k].url], at |-> t]

InitTheme ==
    /\ PodcastFeedIdle
    /\ ThemeCallIdle
    /\ PoolIdle
    /\ AdjustIdle
    /\ ProbeIdle
    /\ RunIdle
    /\ DedupIdle
    /\ ScoreIdle
    /\ DiversityIdle
    /\ MergeIdle
    /\ now = 0
    /\ \E n \in 0..MaxPool : podcast_cache \in WeeklyPools(n)
    /\ podcast_shown_file = NoEntries
    /\ theme_cache_file = NoEntries
    /\ theme_out = NoThemeRun
    /\ selected_at = NoEntries
    /\ theme_runs = 0

\* main, lines 1333-1344, with generate_podcast_feed: load the shown cache,
\* select, write the feed, mark the selected links shown
ThemeRun ==
    /\ theme_runs < MaxThemeRuns
    /\ LET shown == LoadPodcastShownCache(podcast_shown_file, now)
           theme_pool == ThemePool(podcast_cache, shown)
       IN \E rt \in [1..ThemeCalls(theme_pool, theme_cache_file) -> ThemeResponses] :
            LET ts == ScoreArticlesForTheme(theme_pool, theme_cache_file, rt, now)
                theme_articles == ThemeArticles(ThemeFallback(ts.results, theme_pool))
                other == IF IncludeBonus > 0
                         THEN OtherFiltered(podcast_cache, theme_articles, shown)
                         ELSE <<>>
            IN \E rb \in [1..ThemeCalls(other, ts.file) -> ThemeResponses] :
                 LET os == ScoreArticlesForTheme(other, ts.file, rb, now)
                     items == PodcastItems(theme_articles, BonusEntries(os.results))
                     selected_urls == {items[k].url : k \in 1..Len(items)}
                 IN /\ theme_cache_file' = os.file
                    /\ podcast_shown_file' =
                          MarkPodcastShown(podcast_shown_file, shown, selected_urls, now)
                    /\ theme_out' =
                          [at |-> now,
                           pool |-> [k \in 1..Len(theme_pool) |-> theme_pool[k].url_hash],
                           hits |-> {theme_pool[k].url_hash : k \in 1..Len(theme_pool)}
                                        \cap DOMAIN theme_cache_file,
                           outcomes |-> ts.outcomes,
                           entries |-> items,
                           shown |-> DOMAIN shown,
                           before |-> selected_at]
                    /\ selected_at' =
                          [u \in DOMAIN selected_at \cup selected_urls |->
                              IF u \in selected_urls THEN now ELSE selected_at[u]]
    /\ theme_runs' = theme_runs + 1
    /\ feed_before_run' = podcast_feed_file
    /\ podcast_feed_file' = WritePodcastFeed(podcast_feed_file, theme_out'.entries, now)
    /\ UNCHANGED <<themeCallVars, poolVars, adjustVars, probeVars, runVars,
                   dedupVars, now, scoreVars, divVars, mergeVars,
                   podcast_cache>>

\* days go by between two runs: one less than the shown TTL, or the TTL
ThemeWait ==
    /\ theme_runs \in 1..(MaxThemeRuns - 1)
    /\ Len(podcast_cache) <= MaxRerunPool
    /\ now' \in {now + (PODCAST_SHOWN_TTL_DAYS - 1) * HoursPerDay,
                now + PODCAST_SHOWN_TTL_DAYS * HoursPerDay}
    /\ now' <= MaxThemeClock
    /\ UNCHANGED <<feedVars, themeCallVars, poolVars, adjustVars, probeVars,
                   runVars, dedupVars, scoreVars, divVars, mergeVars,
                   themeVars>>

NextTheme == ThemeRun \/ ThemeWait

SpecTheme == InitTheme /\ [][NextTheme]_vars

----------------------------------------------------------------------------
(* Claims about the Theme Selector                                         *)

ThemeRan == theme_runs >= 1

Picked == {theme_out.entries[k] : k \in 1..Len(theme_out.entries)}

ShownTtl == PODCAST_SHOWN_TTL_DAYS * HoursPerDay

C14_ScoreFloors ==
    ThemeRan =>
        \A e \in Picked :
            /\ e.is_bonus <=> e.category \notin ThemeCategories
            /\ e.category \in ThemeCategories => e.quality_score >= MinScore
            /\ e.is_bonus => e.quality_score >= BonusMinScore

\* a run over a pool with a theme article below min_score and another
\* article below other_min_score, which selected only the third one
C14_Witness ==
    /\ ThemeRan
    /\ Len(podcast_cache) = 3
    /\ \E a \in Range(podcast_cache) :
          a.category \in ThemeCategories /\ a.score < MinScore
    /\ \E a \in Range(podcast_cache) :
          a.category \notin ThemeCategories /\ a.score < BonusMinScore
    /\ Cardinality(Picked) = 1

BonusPicks == {k \in 1..Len(theme_out.entries) : theme_out.entries[k].is_bonus}

\* C15: a run selects at most include_top_from_other bonus articles and at
\* most bonus_max_per_category of them from one category.
C15_BonusCaps ==
    ThemeRan =>
        /\ Cardinality(BonusPicks) <= IncludeBonus
        /\ \A c \in {theme_out.entries[k].category : k \in BonusPicks} :
              Cardinality({k \in BonusPicks : theme_out.entries[k].category = c})
                  <= BonusMaxPerCategory

\* three bonus candidates of three categories, of which the run took two
C15_Witness ==
    /\ ThemeRan
    /\ Len(podcast_cache) = 3
    /\ \A a \in Range(podcast_cache) :
          a.category \notin ThemeCategories /\ a.score >= BonusMinScore
    /\ \A a, b \in Range(podcast_cache) : a.id # b.id => a.category # b.category
    /\ Cardinality(BonusPicks) = IncludeBonus

\* every oracle call for the theme pool failed and no article of the pool
\* had a cached theme score
OracleUnavailable ==
    /\ ThemeRan
    /\ theme_out.pool # <<>>
    /\ theme_out.hits = {}
    /\ \A k \in 1..Len(theme_out.outcomes) : theme_out.outcomes[k] = "failed"

\* C16: when the theme pool is not empty and the oracle was unavailable for
\* every batch, the selection is not empty and every theme article has its
\* relevance score as its theme score.
C16_AsStated ==
    OracleUnavailable =>
        /\ theme_out.entries # <<>>
        /\ \A e \in Picked : ~e.is_bonus => e.theme_score = e.quality_score

----------------------------------------------------------------------------
(* Cache expiry at load: the three caches a run loads with a time to live  *)

\* new_articles = [a for a in unique_articles if a.url_hash not in shown_cache]
NotShown(unique_articles, shown) ==
    SelectSeq(unique_articles, LAMBDA a : a.url_hash \notin DOMAIN shown)

\* the partition loop of score_articles_with_claude: the articles found in cache
ScoreCacheHits(list, loaded) ==
    {list[i].url_hash : i \in {j \in 1..Len(list) : CacheHit(list[j], loaded)}}

MaxProbeLinks == 2

ProbeLinks == 1..MaxProbeLinks

\* the run loads its caches at this hour
ProbeClock == PODCAST_SHOWN_TTL_DAYS * HoursPerDay + 1

\* the time to live of each cache, in hours
ProbeTtl ==
    [scored |-> ScoredHours,
     shown |-> ShownDays * HoursPerDay,
     podcast_shown |-> PODCAST_SHOWN_TTL_DAYS * HoursPerDay]

\* written an hour short of the time to live before the load, exactly the
\* time to live before it, an hour more
ProbeStamps(ttl) == {ProbeClock - ttl + 1, ProbeClock - ttl, ProbeClock - ttl - 1}

\* the articles the run fetched: one per link
ProbeArticles == [i \in ProbeLinks |-> NewArticle(i, i, i, "Blog")]

\* the Weekly Pool: link 1 in the theme's category above min_score, the other
\* links outside it above other_min_score
ProbePool ==
    [i \in ProbeLinks |->
        [NewArticle(i, i, i, "Blog") EXCEPT
            !.category = IF i = 1 THEN "ai-tech" ELSE "news",
            !.score = 80]]

\* a cache file: some of the links, each with one of the stamps
ProbeFiles(ttl) ==
    UNION {[links -> ProbeStamps(ttl)] : links \in SUBSET ProbeLinks}

InitCaches ==
    /\ PodcastFeedIdle
    /\ ThemeCallIdle
    /\ PoolIdle
    /\ AdjustIdle
    /\ DedupIdle
    /\ DiversityIdle
    /\ RunIdle
    /\ now = ProbeClock
    \* the scorer, with a Score Cache file on disk
    /\ \E stamps \in ProbeFiles(ProbeTtl.scored) :
          scored_cache_file = [u \in DOMAIN stamps |->
                                  [score |-> 70, category |-> "news",
                                   timestamp |-> stamps[u]]]
    /\ score_pc = "idle"
    /\ runs = 0
    /\ run_start = 0
    /\ file_at_load = NoEntries
    /\ articles = <<>>
    /\ cache = NoEntries
    /\ uncached = <<>>
    /\ next_batch = 0
    /\ scored_articles = <<>>
    /\ oracle_calls = <<>>
    /\ first_run = "none"
    \* main, with a Shown Cache file on disk
    /\ config = [lookback_hours |-> 0, feed_retention_days |-> 0]
    /\ quality_articles = <<>>
    /\ shown_cache = NoEntries
    /\ shown_cache_file \in ProbeFiles(ProbeTtl.shown)
    /\ feed_files = NoEntries
    /\ fetched_at = 0
    /\ merged_at = 0
    /\ merge_runs = 0
    /\ merge_pc = "idle"
    /\ all_items = NoEntries
    \* the Theme Selector, with a Podcast-Shown Cache file on disk
    /\ podcast_cache = ProbePool
    /\ podcast_shown_file \in ProbeFiles(ProbeTtl.podcast_shown)
    /\ theme_cache_file = NoEntries
    /\ theme_out = NoThemeRun
    /\ selected_at = NoEntries
    /\ theme_runs = 0
    /\ probe = NoProbe

\* main: load_shown_cache and the filter of the deduplicated articles
FilterShown ==
    /\ "shown" \notin probe.done
    /\ shown_cache' = LoadShownCache(shown_cache_file, now)
    /\ probe' = [probe EXCEPT !.done = @ \cup {"shown"},
                              !.new_articles = NotShown(ProbeArticles, shown_cache')]
    /\ UNCHANGED <<feedVars, themeCallVars, poolVars, adjustVars, runVars,
                   dedupVars, now, scoreVars, divVars, themeVars, config,
                   quality_articles, shown_cache_file, feed_files, fetched_at,
                   merged_at, merge_runs, merge_pc, all_items>>

\* score_articles_with_claude: load_scored_cache and the partition loop
PartitionCached ==
    /\ "scored" \notin probe.done
    /\ cache' = LoadScoredCache(scored_cache_file, now)
    /\ probe' = [probe EXCEPT !.done = @ \cup {"scored"},
                              !.hits = ScoreCacheHits(ProbeArticles, cache')]
    /\ UNCHANGED <<feedVars, themeCallVars, poolVars, adjustVars, runVars,
                   dedupVars, now, divVars, mergeVars, themeVars,
                   scored_cache_file, score_pc, runs, run_start, file_at_load,
                   articles, uncached, next_batch, scored_articles, oracle_calls,
                   first_run>>

\* main: load_podcast_shown_cache; generate_podcast_feed: the two shown
\* filters. The theme picks are in the theme's categories, so they take
\* nothing from the candidates outside them.
FilterPodcastShown ==
    /\ "podcast_shown" \notin probe.done
    /\ LET shown == LoadPodcastShownCache(podcast_shown_file, now)
       IN probe' = [probe EXCEPT !.done = @ \cup {"podcast_shown"},
                                 !.theme_pool = ThemePool(podcast_cache, shown),
                                 !.other_filtered =
                                     OtherFiltered(podcast_cache, <<>>, shown)]
    /\ UNCHANGED <<feedVars, themeCallVars, poolVars, adjustVars, runVars,
                   dedupVars, now, scoreVars, divVars, mergeVars, themeVars>>

NextCaches == FilterShown \/ PartitionCached \/ FilterPodcastShown

SpecCaches == InitCaches /\ [][NextCaches]_vars

\* the age of an entry has reached the time to live of its cache
Expired(stamp, ttl) == now - stamp >= ttl

LinksOf(list) == {list[i].url_hash : i \in 1..Len(list)}

\* C17: an entry of the Score Cache, the Shown Cache or the Podcast-Shown
\* Cache whose age (now - cachedAt) has reached the time to live when the run
\* loads the cache is absent for that run: its article is no score cache hit,
\* and its article is not excluded as already shown.
C17_ExpiredIsAbsent ==
    /\ "scored" \in probe.done =>
          \A u \in DOMAIN scored_cache_file :
              Expired(scored_cache_file[u].timestamp, ProbeTtl.scored) =>
                  /\ u \notin DOMAIN cache
                  /\ u \notin probe.hits
    /\ "shown" \in probe.done =>
          \A u \in DOMAIN shown_cache_file :
              Expired(shown_cache_file[u], ProbeTtl.shown) =>
                  /\ u \notin DOMAIN shown_cache
                  /\ u \in LinksOf(probe.new_articles)
    /\ "podcast_shown" \in probe.done =>
          \A u \in DOMAIN podcast_shown_file :
              Expired(podcast_shown_file[u], ProbeTtl.podcast_shown) =>
                  u \in LinksOf(probe.theme_pool) \cup LinksOf(probe.other_filtered)

\* the three loads are done; each file held an entry exactly as old as its
\* time to live, which the run ignored, and one an hour younger, which it used
C17_Witness ==
    /\ probe.done = {"scored", "shown", "podcast_shown"}
    /\ DOMAIN scored_cache_file = {1, 2}
    /\ DOMAIN shown_cache_file = {1, 2}
    /\ DOMAIN podcast_shown_file = {1, 2}
    /\ scored_cache_file[1].timestamp = now - ProbeTtl.scored
    /\ scored_cache_file[2].timestamp = now - ProbeTtl.scored + 1
    /\ probe.hits = {2}
    /\ shown_cache_file[1] = now - ProbeTtl.shown
    /\ shown_cache_file[2] = now - ProbeTtl.shown + 1
    /\ LinksOf(probe.new_articles) = {1}
    /\ podcast_shown_file[1] = now - ProbeTtl.podcast_shown
    /\ podcast_shown_file[2] = now - ProbeTtl.podcast_shown + 1
    /\ LinksOf(probe.theme_pool) = {1}
    /\ probe.other_filtered = <<>>

----------------------------------------------------------------------------
(* A run of main, statement by statement, and the files it writes          *)

\* CATEGORIES.keys(), in the order of the configuration
CategoryKeys == <<"local", "news">>

FeedFile(cat) == IF cat = "local" THEN "feed-local.json" ELSE "feed-news.json"

\* what the spec calls the persisted state of a run: the Score Cache, the
\* Weekly Pool, the Podcast-Shown Cache, every category feed, the Shown Cache
PersistedFiles ==
    {"scored_articles_cache.json", "podcast_articles_cache.json",
     "podcast_shown_cache.json", "shown_articles_cache.json"}
    \cup {FeedFile(CategoryKeys[i]) : i \in 1..Len(CategoryKeys)}

\* the check that never finds the credential missing
CredentialMissingNever(key) == FALSE

\* if not api_key
CredentialMissing(key) == key = ""

\* an Article of the run: its link, and the score and category it carries;
\* numeric is whether the score is a number
RunArticle(link, score, numeric, category) ==
    [link |-> link, score |-> score, numeric |-> numeric, category |-> category]

\* one element of the oracle's array as json.loads returns it: a number as
\* the score, or null
RunVerdicts ==
    {[score |-> 90, numeric |-> TRUE, category |-> "local"],
     [score |-> 30, numeric |-> TRUE, category |-> "news"],
     [score |-> 0, numeric |-> FALSE, category |-> "news"]}

\* the except branches of a batch: score 50, category news
RunDefault(a) == [a EXCEPT !.score = 50, !.numeric = TRUE, !.category = "news"]

\* article.score = score_data['score']; article.category = score_data.get('category')
RunScored(a, verdict) ==
    [a EXCEPT !.score = verdict.score, !.numeric = verdict.numeric,
              !.category = verdict.category]

\* a.score >= LIMITS['min_claude_score'] raises TypeError when a.score is
\* None or a string
FilterRaises(list) == \E i \in 1..Len(list) : ~list[i].numeric

MaxFeeds == 2

\* parse_opml: the feeds of the OPML file
RunFeeds == [i \in 1..MaxFeeds |-> i]

Terminated == {"exited", "crashed", "aborted", "done"}

InitRun ==
    /\ PodcastFeedIdle
    /\ ThemeCallIdle
    /\ PoolIdle
    /\ AdjustIdle
    /\ DedupIdle
    /\ ScoreIdle
    /\ DiversityIdle
    /\ MergeIdle
    /\ ThemeIdle
    /\ ProbeIdle
    /\ now = 0
    /\ api_key \in {"", "sk-ant"}
    /\ run_pc = "start"
    /\ exit_status = {}
    /\ files_written = {}
    /\ feeds_left = <<>>
    /\ run_articles = <<>>
    /\ cats_left = <<>>

\* main: the credential check, then parse_opml
CheckCredential ==
    /\ run_pc = "start"
    /\ IF CredentialMissing(api_key)
       THEN /\ run_pc' = "exited"
            /\ exit_status' = {1}
            /\ UNCHANGED feeds_left
       ELSE /\ run_pc' = "fetch"
            /\ feeds_left' = RunFeeds
            /\ UNCHANGED exit_status
    /\ UNCHANGED <<feedVars, themeCallVars, poolVars, adjustVars, probeVars,
                   dedupVars, now, scoreVars, divVars, mergeVars, themeVars,
                   api_key, files_written, run_articles, cats_left>>

\* one iteration of "for feed in feeds": fetch_feed_articles returns [] when
\* anything raised, else the articles newer than cutoff_date
FetchFeed ==
    /\ run_pc = "fetch"
    /\ feeds_left # <<>>
    /\ \E outcome \in {"failed", "nothing_new", "one_article"} :
          run_articles' =
              IF outcome = "one_article"
              THEN Append(run_articles, RunArticle(Head(feeds_left), 0, TRUE, "none"))
              ELSE run_articles
    /\ feeds_left' = Tail(feeds_left)
    /\ UNCHANGED <<feedVars, themeCallVars, poolVars, adjustVars, probeVars,
                   dedupVars, now, scoreVars, divVars, mergeVars, themeVars,
                   api_key, run_pc, exit_status, files_written, cats_left>>

\* scrape_wlt_news and the loop over wlt_articles: [] when the request
\* raised, else save_wlt_cache and the entries scraped
ScrapeWlt ==
    /\ run_pc = "fetch"
    /\ feeds_left = <<>>
    /\ \E outcome \in {"failed", "nothing_scraped", "one_article"} :
          /\ run_articles' =
                IF outcome = "one_article"
                THEN Append(run_articles,
                            RunArticle(MaxFeeds + 1, LocalPriorityScore, TRUE, "local"))
                ELSE run_articles
          /\ files_written' =
                IF outcome = "failed" THEN files_written
                ELSE files_written \cup {"wlt_cache.json"}
    /\ run_pc' = "score"
    /\ UNCHANGED <<feedVars, themeCallVars, poolVars, adjustVars, probeVars,
                   dedupVars, now, scoreVars, divVars, mergeVars, themeVars,
                   api_key, exit_status, feeds_left, cats_left>>

\* deduplicate_articles, the Shown Cache filter and score_articles_with_claude
\* (one batch): with no new article nothing is scored or saved; else every
\* article gets the oracle's verdict or, when the batch failed, the default,
\* and save_scored_cache runs
ScoreArticles ==
    /\ run_pc = "score"
    /\ \E kept \in SUBSET (1..Len(run_articles)) :
          LET new_articles == SelectSeq(run_articles, LAMBDA a :
                                  \E i \in kept : run_articles[i] = a)
          IN IF new_articles = <<>>
             THEN /\ run_articles' = <<>>
                  /\ UNCHANGED files_written
             ELSE /\ \E outcome \in {"api_error", "bad_json", "parsed"} :
                        IF outcome = "parsed"
                        THEN \E verdicts \in [1..Len(new_articles) -> RunVerdicts] :
                                run_articles' =
                                    [i \in 1..Len(new_articles) |->
                                        RunScored(new_articles[i], verdicts[i])]
                        ELSE run_articles' =
                                [i \in 1..Len(new_articles) |->
                                    RunDefault(new_articles[i])]
                  /\ files_written' = files_written \cup {"scored_articles_cache.json"}
    /\ run_pc' = "filter"
    /\ UNCHANGED <<feedVars, themeCallVars, poolVars, adjustVars, probeVars,
                   dedupVars, now, scoreVars, divVars, mergeVars, themeVars,
                   api_key, exit_status, feeds_left, cats_left>>

\* enforce_local_priority, apply_source_preferences and the quality filter:
\* the comparison of a score that is no number raises, and main catches
\* nothing
QualityFilter ==
    /\ run_pc = "filter"
    /\ IF FilterRaises(run_articles)
       THEN /\ run_pc' = "crashed"
            /\ exit_status' = {1}
            /\ UNCHANGED run_articles
       ELSE /\ run_pc' = "images"
            /\ run_articles' = SelectSeq(run_articles,
                                         LAMBDA a : a.score >= MinClaudeScore)
            /\ UNCHANGED exit_status
    /\ UNCHANGED <<feedVars, themeCallVars, poolVars, adjustVars, probeVars,
                   dedupVars, now, scoreVars, divVars, mergeVars, themeVars,
                   api_key, files_written, feeds_left, cats_left>>

\* batch_fetch_images: every failure is caught; the image cache is saved when
\* a lookup changed it
FetchImages ==
    /\ run_pc = "images"
    /\ \E cache_updated \in {u \in BOOLEAN : u => run_articles # <<>>} :
          files_written' =
              IF cache_updated THEN files_written \cup {"image_cache.json"}
              ELSE files_written
    /\ run_pc' = "podcast_cache"
    /\ UNCHANGED <<feedVars, themeCallVars, poolVars, adjustVars, probeVars,
                   dedupVars, now, scoreVars, divVars, mergeVars, themeVars,
                   api_key, exit_status, feeds_left, run_articles, cats_left>>

\* save_podcast_cache(quality_articles): the Weekly Pool is written
SavePodcastCache ==
    /\ run_pc = "podcast_cache"
    /\ files_written' = files_written \cup {"podcast_articles_cache.json"}
    /\ run_pc' = "podcast_feed"
    /\ UNCHANGED <<feedVars, themeCallVars, poolVars, adjustVars, probeVars,
                   dedupVars, now, scoreVars, divVars, mergeVars, themeVars,
                   api_key, exit_status, feeds_left, run_articles, cats_left>>

\* today's podcast feed: nothing without a schedule for today or without
\* entries; else the episode is written and its links are marked in the
\* Podcast-Shown Cache, and the theme score cache is saved when an article of
\* the pool had no cached theme score
PodcastFeed ==
    /\ run_pc = "podcast_feed"
    /\ \E outcome \in {"no_schedule", "no_entries", "episode", "episode_from_cache"} :
          files_written' =
              files_written
              \cup (IF outcome \in {"episode", "episode_from_cache"}
                    THEN {"feed-podcast.json", "podcast_shown_cache.json"} ELSE {})
              \cup (IF outcome = "episode" THEN {"theme_scores_cache.json"} ELSE {})
    /\ run_pc' = "feeds"
    /\ cats_left' = CategoryKeys
    /\ UNCHANGED <<feedVars, themeCallVars, poolVars, adjustVars, probeVars,
                   dedupVars, now, scoreVars, divVars, mergeVars, themeVars,
                   api_key, exit_status, feeds_left, run_articles>>

\* one iteration of "for cat_key in CATEGORIES.keys()": generate_json_feed
\* writes the feed of the category
WriteFeed ==
    /\ run_pc = "feeds"
    /\ cats_left # <<>>
    /\ files_written' = files_written \cup {FeedFile(Head(cats_left))}
    /\ cats_left' = Tail(cats_left)
    /\ UNCHANGED <<feedVars, themeCallVars, poolVars, adjustVars, probeVars,
                   dedupVars, now, scoreVars, divVars, mergeVars, themeVars,
                   api_key, run_pc, exit_status, feeds_left, run_articles>>

\* save_shown_cache, generate_opml, and main returns
SaveShown ==
    /\ run_pc = "feeds"
    /\ cats_left = <<>>
    /\ files_written' = files_written \cup {"shown_articles_cache.json",
                                            "curated-feeds.opml"}
    /\ run_pc' = "done"
    /\ exit_status' = {0}
    /\ UNCHANGED <<feedVars, themeCallVars, poolVars, adjustVars, probeVars,
                   dedupVars, now, scoreVars, divVars, mergeVars, themeVars,
                   api_key, feeds_left, run_articles, cats_left>>

\* the run is cancelled between two statements: what is on disk stays
Abort ==
    /\ run_pc \notin Terminated
    /\ run_pc' = "aborted"
    /\ UNCHANGED <<feedVars, themeCallVars, poolVars, adjustVars, probeVars,
                   dedupVars, now, scoreVars, divVars, mergeVars, themeVars,
                   api_key, exit_status, files_written, feeds_left, run_articles,
                   cats_left>>

RunStep ==
    \/ CheckCredential
    \/ FetchFeed
    \/ ScrapeWlt
    \/ ScoreArticles
    \/ QualityFilter
    \/ FetchImages
    \/ SavePodcastCache
    \/ PodcastFeed
    \/ WriteFeed
    \/ SaveShown

NextRun == RunStep \/ Abort

SpecRun == InitRun /\ [][NextRun]_vars

\* C18: when ANTHROPIC_API_KEY is missing, the run goes no further than the
\* credential check, main exits with status 1, and the run has written no
\* cache file and no feed file.
C18_CredentialFatal ==
    api_key = "" =>
        /\ run_pc \in {"start", "exited", "aborted"}
        /\ run_pc = "exited" => exit_status = {1}
        /\ files_written = {}

\* the run without a credential has exited
C18_Witness ==
    /\ api_key = ""
    /\ run_pc = "exited"
    /\ exit_status = {1}
    /\ files_written = {}

\* C19 as stated: once the run has ended, completed or aborted between two
\* steps, either all of the Score Cache, the Weekly Pool, the Podcast-Shown
\* Cache, the category feeds and the Shown Cache were written by it or none
\* of them was.
C19_AsStated ==
    run_pc \in Terminated =>
        \/ PersistedFiles \subseteq files_written
        \/ PersistedFiles \cap files_written = {}

\* The interpreter runs main to its end: every request has a timeout and
\* every loop is over a finite list, so the statement the run is at is
\* eventually executed. No cancellation here.
SpecRunFair == InitRun /\ [][RunStep]_vars /\ WF_vars(RunStep)

EveryFeedWritten ==
    \A i \in 1..Len(CategoryKeys) : FeedFile(CategoryKeys[i]) \in files_written

\* C20 as stated: a run started with the credential present eventually
\* finishes with a feed written for every configured category, whichever
\* fetches fail and whatever the oracle's batch calls fail with.
C20_AsStated ==
    (run_pc = "start" /\ api_key # "") ~> (run_pc = "done" /\ EveryFeedWritten)

----------------------------------------------------------------------------
(* Local priority and source preferences: main between the scorer and the  *)
(* quality filter                                                          *)

\* FILTERS['local_signals']
LocalSignals == {"cariboo"}

\* the score enforce_local_priority raises a local article to
LocalFloor == 80

\* any(signal in text for signal in local_signals)
HasLocalSignal(article) == article.keywords \cap LocalSignals # {}

\* the override that raises the score and leaves the category
EnforceOneKeepsCategory(article) ==
    IF HasLocalSignal(article)
    THEN [article EXCEPT !.score = IF @ < LocalFloor THEN LocalFloor ELSE @]
    ELSE article

\* the body of the loop of enforce_local_priority
EnforceOne(article) ==
    IF HasLocalSignal(article)
    THEN [article EXCEPT !.score = IF @ < LocalFloor THEN LocalFloor ELSE @,
                         !.category = "local"]
    ELSE article

\* enforce_local_priority
EnforceLocalPriority(list) == [i \in 1..Len(list) |-> EnforceOne(list[i])]

\* the body of the loop of apply_source_preferences: a source whose type is
\* configured with an adjustment other than 0 gets it, clamped to 0..100
AdjustOne(article) ==
    LET source_type == SourceType(article.source)
    IN IF source_type \in DOMAIN SourceTypes
          /\ SourceTypes[source_type].score_adjustment # 0
       THEN [article EXCEPT !.score =
                Max(0, Min(100, @ + SourceTypes[source_type].score_adjustment))]
       ELSE article

\* apply_source_preferences
ApplySourcePreferences(list) == [i \in 1..Len(list) |-> AdjustOne(list[i])]

MaxAdjusted == 2

\* what the oracle (or the Score Cache) may hold as an article's score: in
\* range on both sides of the local floor, and out of range on both sides
ReturnedScores == {0 - 5, 50, 79, 80, 95, 150}

\* scored_articles as the scorer returns it: articles with or without a
\* local signal, from sources of every type and of none
ScoredLists(n) ==
    { [i \in 1..n |->
        [NewArticle(i, i, i, p[i].source) EXCEPT
            !.keywords = p[i].keywords, !.score = p[i].score,
            !.category = p[i].category]] :
      p \in [1..n -> [source : {"Tribune", "Gazette", "Radio", "Wire", "Blog"},
                      keywords : {{}, {"cariboo"}},
                      score : ReturnedScores,
                      category : {"news", "local"}]] }

InitAdjust ==
    /\ PodcastFeedIdle
    /\ ThemeCallIdle
    /\ PoolIdle
    /\ DedupIdle
    /\ ScoreIdle
    /\ DiversityIdle
    /\ MergeIdle
    /\ ThemeIdle
    /\ ProbeIdle
    /\ RunIdle
    /\ now = 0
    /\ \E n \in 1..MaxAdjusted : scored_in \in ScoredLists(n)
    /\ enforced_out = <<>>
    /\ adjusted_out = <<>>
    /\ adjust_pc = "scored"

\* scored_articles = enforce_local_priority(scored_articles)
EnforceLocal ==
    /\ adjust_pc = "scored"
    /\ enforced_out' = EnforceLocalPriority(scored_in)
    /\ adjust_pc' = "enforced"
    /\ UNCHANGED <<feedVars, themeCallVars, poolVars, dedupVars, now,
                   scoreVars, divVars, mergeVars, themeVars, probeVars,
                   runVars, scored_in, adjusted_out>>

\* scored_articles = apply_source_preferences(scored_articles)
AdjustSources ==
    /\ adjust_pc = "enforced"
    /\ adjusted_out' = ApplySourcePreferences(enforced_out)
    /\ adjust_pc' = "adjusted"
    /\ UNCHANGED <<feedVars, themeCallVars, poolVars, dedupVars, now,
                   scoreVars, divVars, mergeVars, themeVars, probeVars,
                   runVars, scored_in, enforced_out>>

NextAdjust == EnforceLocal \/ AdjustSources

SpecAdjust == InitAdjust /\ [][NextAdjust]_vars

Enforced == adjust_pc \in {"enforced", "adjusted"}

\* C21: after enforce_local_priority every article with a local signal has
\* the score max(previous score, 80) and the category local, and every
\* article without one has its score and category unchanged.
C21_LocalOverride ==
    Enforced =>
        /\ Len(enforced_out) = Len(scored_in)
        /\ \A i \in 1..Len(scored_in) :
              IF HasLocalSignal(scored_in[i])
              THEN /\ enforced_out[i].score = Max(scored_in[i].score, LocalFloor)
                   /\ enforced_out[i].category = "local"
              ELSE /\ enforced_out[i].score = scored_in[i].score
                   /\ enforced_out[i].category = scored_in[i].category

\* a local article below the floor filed under news, next to one without a
\* signal: the first was raised and moved, the second left alone
C21_Witness ==
    /\ Enforced
    /\ Len(scored_in) = 2
    /\ HasLocalSignal(scored_in[1])
    /\ scored_in[1].score = 50
    /\ scored_in[1].category = "news"
    /\ enforced_out[1].score = LocalFloor
    /\ enforced_out[1].category = "local"
    /\ ~HasLocalSignal(scored_in[2])
    /\ enforced_out[2] = scored_in[2]

\* C22 as stated: every article that leaves the scorer stage, after the
\* local override and the source-preference adjustment, has a score within
\* 0..100, whatever the oracle returned.
C22_AsStated ==
    adjust_pc = "adjusted" =>
        \A i \in 1..Len(adjusted_out) : adjusted_out[i].score \in 0..100

\* C26 as stated: every article with a local signal reaches the quality
\* filter with a score of at least 80 and the category local, whatever the
\* oracle returned and whatever the type of its source.
C26_AsStated ==
    adjust_pc = "adjusted" =>
        \A i \in 1..Len(adjusted_out) :
            HasLocalSignal(adjusted_out[i]) =>
                /\ adjusted_out[i].score >= LocalFloor
                /\ adjusted_out[i].category = "local"

----------------------------------------------------------------------------
(* Weekly Pool: podcast_articles_cache.json                                *)

\* cache_expiry = timedelta(days=7)
PoolDays == 7

\* load_podcast_cache at time t: the entries with pub_date > cutoff
LoadPodcastCache(file, t) ==
    SelectSeq(file, LAMBDA item : item.pub_date > t - PoolDays * HoursPerDay)

\* save_podcast_cache at time t: the loaded pool, then every article whose
\* link is not among the links of the loaded pool (existing_urls is built
\* once, before the loop), sorted by pub_date, newest first
SavePodcastCacheFile(file, list, t) ==
    LET existing == LoadPodcastCache(file, t)
        existing_urls == {existing[i].url_hash : i \in 1..Len(existing)}
    IN SortByPubDate(existing
                     \o SelectSeq(list, LAMBDA a : a.url_hash \notin existing_urls))

MaxPoolNew == 2
MaxPoolSaves == 2
MaxPoolClock == 252

\* half of the pool's window, in hours
PoolWait == 84

\* quality_articles: deduplication compares titles and the scorer appends an
\* article once per element of the oracle's array that names it, so two
\* elements of the list can carry the same link
PoolQuality(n, t) ==
    { [i \in 1..n |->
        [NewArticle(i, p[i].link, i, "Blog") EXCEPT
            !.pub_date = p[i].pub_date, !.score = p[i].score,
            !.category = "news"]] :
      p \in [1..n -> [link : {1, 2}, pub_date : {t, t - HoursPerDay},
                      score : {60, 90}]] }

InitPool ==
    /\ PodcastFeedIdle
    /\ ThemeCallIdle
    /\ DedupIdle
    /\ ScoreIdle
    /\ DiversityIdle
    /\ MergeIdle
    /\ ProbeIdle
    /\ RunIdle
    /\ AdjustIdle
    /\ now = 0
    /\ podcast_cache = <<>>
    /\ podcast_shown_file = NoEntries
    /\ theme_cache_file = NoEntries
    /\ theme_out = NoThemeRun
    /\ selected_at = NoEntries
    /\ theme_runs = 0
    /\ pool_log = NoPoolLog

\* main: save_podcast_cache(quality_articles)
PoolSave ==
    /\ pool_log.saves < MaxPoolSaves
    /\ \E n \in 0..MaxPoolNew : \E list \in PoolQuality(n, now) :
          /\ podcast_cache' = SavePodcastCacheFile(podcast_cache, list, now)
          /\ pool_log' = [pool_log EXCEPT !.saves = @ + 1, !.saved_at = now,
                                          !.before = podcast_cache,
                                          !.saved = podcast_cache']
    /\ UNCHANGED <<feedVars, themeCallVars, adjustVars, dedupVars, now,
                   scoreVars, divVars, mergeVars, probeVars,
                   runVars, podcast_shown_file, theme_cache_file, theme_out,
                   selected_at, theme_runs>>

\* main: podcast_cache = load_podcast_cache()
PoolLoad ==
    /\ pool_log.saves >= 1
    /\ pool_log' = [pool_log EXCEPT !.loads = 1, !.loaded_at = now,
                                    !.loaded = LoadPodcastCache(podcast_cache, now)]
    /\ UNCHANGED <<feedVars, themeCallVars, adjustVars, dedupVars, now,
                   scoreVars, divVars, mergeVars, probeVars,
                   runVars, themeVars>>

\* half a week goes by
PoolTick ==
    /\ now + PoolWait <= MaxPoolClock
    /\ now' = now + PoolWait
    /\ UNCHANGED <<feedVars, themeCallVars, adjustVars, dedupVars, scoreVars,
                   divVars, mergeVars, probeVars,
                   runVars, themeVars, poolVars>>

NextPool == PoolSave \/ PoolLoad \/ PoolTick

SpecPool == InitPool /\ [][NextPool]_vars

PoolWindow == PoolDays * HoursPerDay

\* C23 as stated: after any sequence of saves and loads the pool has no two
\* entries with the same link, every entry a load returned has its pub_date
\* within the last 7 days, and the last save kept every entry of the pool
\* that was not expired, unmodified.
C23_AsStated ==
    /\ \A i, j \in 1..Len(podcast_cache) :
          i # j => podcast_cache[i].url_hash # podcast_cache[j].url_hash
    /\ \A i \in 1..Len(pool_log.loaded) :
          pool_log.loaded[i].pub_date > pool_log.loaded_at - PoolWindow
    /\ \A i \in 1..Len(pool_log.before) :
          pool_log.before[i].pub_date > pool_log.saved_at - PoolWindow =>
              \E j \in 1..Len(pool_log.saved) : pool_log.saved[j] = pool_log.before[i]

----------------------------------------------------------------------------
(* Theme score cache over the weeks: theme_scores_cache.json for the theme *)
(* of one weekday                                                          *)

MaxCalls == 3
MaxCallClock == 169
MaxCallPool == 2

\* the articles of the Weekly Pool in the theme's category: dated when they
\* were fetched, or a day or two ahead of it (the feed's own date is taken
\* as it is)
CallPools(n) ==
    { [i \in 1..n |->
        [NewArticle(i, i, i, "Blog") EXCEPT
            !.category = "ai-tech", !.score = 60, !.pub_date = d[i]]] :
      d \in [1..n -> {0, HoursPerDay, 2 * HoursPerDay}] }

InitThemeCall ==
    /\ PodcastFeedIdle
    /\ DedupIdle
    /\ ScoreIdle
    /\ DiversityIdle
    /\ MergeIdle
    /\ ProbeIdle
    /\ RunIdle
    /\ AdjustIdle
    /\ PoolIdle
    /\ now = 0
    /\ \E n \in 1..MaxCallPool : podcast_cache \in CallPools(n)
    /\ podcast_shown_file = NoEntries
    /\ theme_cache_file = NoEntries
    /\ theme_out = NoThemeRun
    /\ selected_at = NoEntries
    /\ theme_runs = 0
    /\ theme_call = NoThemeCall

\* main: load_podcast_cache; generate_podcast_feed: the theme pool and
\* score_articles_for_theme on it
ThemeScoreCall ==
    /\ theme_call.calls < MaxCalls
    /\ LET theme_pool == ThemePool(LoadPodcastCache(podcast_cache, now), NoEntries)
       IN /\ theme_pool # <<>>
          /\ \E response \in ThemeResponses :
                theme_cache_file' =
                    ScoreArticlesForTheme(theme_pool, theme_cache_file,
                                          <<response>>, now).file
          /\ theme_call' =
                [calls |-> theme_call.calls + 1, at |-> now,
                 loaded |-> theme_cache_file,
                 hits |-> {theme_pool[i].url_hash :
                             i \in {j \in 1..Len(theme_pool) :
                                      ThemeCacheHit(theme_pool[j], theme_cache_file)}}]
    /\ UNCHANGED <<feedVars, poolVars, adjustVars, dedupVars, now, scoreVars, divVars, mergeVars,
                   probeVars, runVars, podcast_cache, podcast_shown_file, theme_out,
                   selected_at, theme_runs>>

\* the runs on the theme's weekday: two an hour apart, and the same a week
\* later
CallTimes == {0, 1, PoolDays * HoursPerDay, PoolDays * HoursPerDay + 1}

\* the next run on the theme's weekday: an hour later, or a week later
ThemeCallWait ==
    /\ \E wait \in {1, PoolDays * HoursPerDay} :
          /\ now + wait \in CallTimes
          /\ now + wait <= MaxCallClock
          /\ now' = now + wait
    /\ UNCHANGED <<feedVars, poolVars, adjustVars, dedupVars, scoreVars, divVars, mergeVars,
                   probeVars, runVars, themeVars, themeCallVars>>

NextThemeCall == ThemeScoreCall \/ ThemeCallWait

SpecThemeCall == InitThemeCall /\ [][NextThemeCall]_vars

\* C24 as stated: score_articles_for_theme uses a cached theme score as a hit
\* only while the entry is younger than THEME_SCORE_CACHE_TTL_DAYS.
C24_AsStated ==
    \A u \in theme_call.hits :
        theme_call.at - theme_call.loaded[u].cached_at
            < THEME_SCORE_CACHE_TTL_DAYS * HoursPerDay

----------------------------------------------------------------------------
(* The podcast feed of a day over the runs of that day                     *)

\* the last run found the feed of a run made at the same time of the same day
SameDayRerun ==
    /\ theme_runs >= 2
    /\ feed_before_run.exists
    /\ feed_before_run.at = theme_out.at

\* C25 as stated: once a run has written the day's podcast feed and marked
\* its articles shown, a later run on the same day leaves the feed with the
\* same set of articles.
C25_AsStated ==
    SameDayRerun => Range(podcast_feed_file.urls) = Range(feed_before_run.urls)

\* C28 as stated: the podcast feed a run writes lists no link twice, among the theme
\* picks, among the bonus picks and across both, whatever the oracle
\* answered to the theme scoring.
C28_AsStated ==
    \A i, j \in 1..Len(podcast_feed_file.urls) :
        i # j => podcast_feed_file.urls[i] # podcast_feed_file.urls[j]

----------------------------------------------------------------------------
(* The Score Cache the scorer saves against the articles it returns        *)

\* C27 as stated: when score_articles_with_claude returns, every returned
\* article whose url_hash has an entry in the cache it saved has that
\* entry's score and category, whatever the oracle answered, an answer that
\* raises after some of its elements were processed included.
C27_AsStated ==
    Returned =>
        \A k \in 1..Len(scored_articles) :
            LET a == articles[scored_articles[k]]
            IN a.url_hash \in DOMAIN scored_cache_file =>
                  /\ a.score = scored_cache_file[a.url_hash].score
                  /\ a.category = scored_cache_file[a.url_hash].category

----------------------------------------------------------------------------
(* The Shown Cache against the articles the merge dropped                  *)

\* the link is an item of some category feed on disk
InFeed(u) ==
    \E cat \in FeedCategories :
        \E k \in 1..Len(feed_files[cat]) : feed_files[cat][k].url = u

ShownWindow == ShownDays * HoursPerDay

\* the link was recorded less than the shown TTL before the fetch of the run
ShownAtFetch(u, fetched) ==
    /\ u \in DOMAIN shown_cache_file
    /\ fetched - shown_cache_file[u] < ShownWindow

\* C29: when a run ends every quality article is in the Shown Cache with the
\* time of that run, whether or not a feed took it; a run that fetches less
\* than the shown TTL after that hands no such article to the scorer and the
\* merge; and no step puts a link into a feed that was recorded, was in no
\* feed, and is still within the shown TTL at the fetch of the run.
C29_ShownByQuality ==
    /\ [](merge_pc = "merged" =>
            \A i \in 1..Len(quality_articles) :
                /\ quality_articles[i].url_hash \in DOMAIN shown_cache_file
                /\ shown_cache_file[quality_articles[i].url_hash] = merged_at)
    /\ [](merge_pc = "collected" =>
            \A i \in 1..Len(quality_articles) :
                ~ShownAtFetch(quality_articles[i].url_hash, fetched_at))
    /\ [][\A u \in MergeLinks :
              (ShownAtFetch(u, fetched_at') /\ ~InFeed(u)) => ~InFeed(u)']_vars

\* the second run has fetched, a day after the first one recorded an article
\* that no feed took
C29_Witness ==
    /\ merge_runs = 2
    /\ merge_pc = "collected"
    /\ \E u \in MergeLinks :
          /\ ShownAtFetch(u, fetched_at)
          /\ shown_cache_file[u] < fetched_at
          /\ ~InFeed(u)

----------------------------------------------------------------------------
(* The kept list during the walk of deduplicate_articles                   *)

\* the state of the walk after the first k articles of sorted_articles
WalkedTo(k) ==
    LET sorted_articles == SortByPriority(batch)
    IN DedupWalk(DedupStart, SubSeq(sorted_articles, 1, k))

IsPrefixOf(s, t) == Len(s) <= Len(t) /\ SubSeq(t, 1, Len(s)) = s

\* C30: during deduplicate_articles the swap branch is never taken, and the
\* kept list after each iteration extends the kept list before it, so the
\* list returned holds every article that was ever appended.
C30_KeptOnlyGrows ==
    dedup_pc = "deduped" =>
        /\ WalkedTo(Len(batch)).swaps = 0
        /\ WalkedTo(Len(batch)).unique = unique
        /\ \A k \in 1..Len(batch) :
              IsPrefixOf(WalkedTo(k - 1).unique, WalkedTo(k).unique)

\* a batch in which a better-ranked article was fetched after a similar one
\* of worse rank: the walk meets the better one first and drops the other
C30_Witness ==
    /\ dedup_pc = "deduped"
    /\ \E i, j \in 1..Len(batch) :
          /\ i < j
          /\ SourcePriority(batch[j]) < SourcePriority(batch[i])
          /\ batch[i].url_hash # batch[j].url_hash
          /\ TitleSimilarity(batch[i], batch[j]) > SimilarityThreshold
          /\ InUnique(batch[j])
          /\ ~InUnique(batch[i])

====
